---- MODULE Spec2Model ----
(***************************************************************************)
(* Calico GL renderer (src/src/gl/gl_render.cpp): the texture resource     *)
(* cache (ResourceHive + TextureResource), the palette converters, the two *)
(* software framebuffers and the normal/late draw command lists.           *)
(*                                                                         *)
(* A pixel buffer of w*h pixels is a function on 0..n-1; the model tracks  *)
(* the first MaxPix pixels of every buffer (n = Min(w*h, MaxPix)).         *)
(***************************************************************************)
EXTENDS Integers, Sequences, FiniteSets, TLC

----------------------------------------------------------------------------
\* Bounds of the model

\* pixels tracked at the head of every pixel buffer
MaxPix == 2
\* draw commands enqueued per frame under SpecQueue
MaxQueue == 2
\* draw commands enqueued per frame under SpecSync
MaxFrameCmds == 1

----------------------------------------------------------------------------
\* Program constants

NULL == 0

CALICO_ORIG_SCREENWIDTH == 320
CALICO_ORIG_SCREENHEIGHT == 224
CALICO_ORIG_GAMESCREENWIDTH == 160
CALICO_ORIG_GAMESCREENHEIGHT == 180

\* glrestype_t, and a selector value outside the enumeration
ResTypes == {"RES_FRAMEBUFFER", "RES_8BIT", "RES_8BIT_PACKED"}
ResTypeInputs == ResTypes \cup {"RES_OTHER"}

\* glfbwhich_t, and a selector value outside the enumeration
FbWhich == {"FB_160", "FB_320"}
FbWhichInputs == FbWhich \cup {"FB_OTHER"}

\* messages of hal_platform.fatalError
Fatal160 == "Could not create 160x180 framebuffer texture"
Fatal320 == "Could not create 320x224 framebuffer texture"

----------------------------------------------------------------------------
\* Input sets

\* resource names the game uses
Names == {"framebuffer", "framebuffer320", "gfx"}
\* 32-bit colours the game paints with and the converters produce
Colors == {0, 1}
\* graphics the game creates: <<source bytes, width, height, palette shift>>
\* (bytes beyond the tracked pixels are not listed)
Graphics == {<<16, 2, 1, 0>>}
\* destination rectangles of draw requests, in 320x224 space
Rects == {<<0, 0, 320, 224>>, <<8, 16, 2, 1>>}
\* the one rectangle used where the draw lists are not the subject
Rects1 == {<<8, 16, 2, 1>>}
\* the resources the game paints, marks, syncs and clears under Spec
Painted == {"framebuffer", "gfx"}
\* source bytes of the graphics given to the converters: 0x00, 0x01, 0x10, 0x21
Bytes == {0, 1, 16, 33}
\* palette shifts given to the packed converter
PalShifts == {0, 1, 127, 128}
\* <<width, height>> of the graphics given to the converters
ConvSizes == {<<2, 1>>, <<3, 1>>, <<1, 1>>}
\* outcomes of the memset through a null pointer: the write traps, or it
\* returns and execution goes on with the null pointer
UBOutcomes == {"trap", "continue"}

\* the render state of a new GL context: nothing enabled, back faces culled
\* once culling is enabled, source factor one and destination factor zero
rbInitial ==
    [cull |-> FALSE, cullFace |-> "RB_GLCULL_BACK", depthTest |-> FALSE,
     blend |-> FALSE, alphaTest |-> FALSE,
     blendSrc |-> "RB_GLSRC_ONE", blendDst |-> "RB_GLDST_ZERO"]

----------------------------------------------------------------------------
VARIABLES
    pc,                 \* process: "startup", "running", "fatal", "crashed"
    resources,          \* the TextureResource objects, by handle 1..n
    graphics,           \* ResourceHive graphics: handles in insertion order
    framebuffer160,     \* TextureResource *framebuffer160
    framebuffer320,     \* TextureResource *framebuffer320
    drawCommands,       \* BDList drawCommands, first to last
    lateDrawCommands,   \* BDList lateDrawCommands, first to last
    palette8,           \* extern unsigned short *palette8: the table it points to
    CRYToRGB,           \* the CRY to RGB lookup table
    rbState,            \* the render state of the GL context
    op,                 \* the name of the last operation, "(NULL)" added when
                        \* it was passed a null resource
    ret,                \* what the last operation returned (NULL for void)
    uploads,            \* texture uploads the last operation made, in order
    executed,           \* commands the last operation drew, in order
    flushed,            \* the enqueue calls of the frame the last operation rendered
    frameLog,           \* the enqueue calls since the last GL_RenderFrame
    calls,              \* the calls of GL_NewTextureResource in the last operation
    converted,          \* whether the last operation ran a pixel conversion
    request,            \* the arguments of the GL_NewTextureResource call the
                        \* game made last, <<>> after any other operation
    refired,            \* whether the last operation was a firing of the
                        \* resolution change handler right after another
    fatalMsg,           \* message given to hal_platform.fatalError, or ""
    \* m_main.c
    mpc,                \* the main menu: "off", "menu" between M_Start and the
                        \* call of M_Ticker that returns 1, "done" after it
    cursorframe, cursorcount, movecount, playermap,
    currentplaymode, cursorpos, playerskill,
    startmap, startskill, starttype,   \* the game's start settings
    maxlevel,           \* the highest level the player may start on
    ticbuttons,         \* ticbuttons[consoleplayer] as the last M_Ticker call read it
    mret,               \* the value the last M_Ticker call returned
    entered,            \* the cursor and the settings at entry to the last
                        \* M_Ticker call
    spc,                \* R_Sprites: "entry", "mobj", "psprites", "returned",
                        \* "crashed": the loop body the call runs next
    vissprites,         \* vissprite_t vissprites[]: mobj sprites, then psprites
    lastsprite_p,       \* index of the first psprite (vissprites is index 1)
    vissprite_p,        \* index one past the last vissprite
    sprI,               \* R_Sprites' local i
    mobjCount,          \* R_Sprites' local count
    best,               \* R_Sprites' local best: NULL or an index
    spropening,         \* static int spropening[]: entries 0..MaxX
    spriteCalls,        \* the R_ClipVisSprite and R_DrawVisSprite calls made
    picked,             \* the value of best in each iteration of the mobj loop
    onEntry,            \* vissprites as it was when R_Sprites was called
    dpc,                \* R_decode: "running", "done", "crashed"
    lump,               \* the bytes at input as far as R_decode has read them
    lumpStart,          \* the bytes at input fixed before the call
    input,              \* R_decode's input, as an offset into lump
    output,             \* the pixels written through output, first to last
    getidbyte,          \* R_decode's local getidbyte
    idbyte,             \* R_decode's local idbyte
    tokens,             \* number of iterations of R_decode's loop so far
    idRead              \* the last id byte as it was read

progVars == <<pc, resources, graphics, framebuffer160, framebuffer320,
              drawCommands, lateDrawCommands, palette8, CRYToRGB, rbState>>
obsVars == <<op, ret, uploads, executed, flushed, frameLog, calls, converted,
             request, refired, fatalMsg>>
menuVars == <<mpc, cursorframe, cursorcount, movecount, playermap,
              currentplaymode, cursorpos, playerskill, startmap, startskill,
              starttype, maxlevel, ticbuttons, mret, entered>>
spriteVars == <<spc, vissprites, lastsprite_p, vissprite_p, sprI, mobjCount,
                best, spropening, spriteCalls, picked, onEntry>>
decodeVars == <<dpc, lump, lumpStart, input, output, getidbyte, idbyte, tokens,
                idRead>>
vars == <<progVars, obsVars, menuVars, spriteVars, decodeVars>>

----------------------------------------------------------------------------
\* m_main.c: the main menu

\* menu_t
gamemode == 0
level == 1
difficulty == 2
NUMMENUITEMS == 3

\* playmode_t
single == 0
coop == 1
dmatch == 2
NUMMODES == 3

\* skill_t: sk_baby is 0, sk_nightmare the last of five skills
sk_nightmare == 4

\* the highest maxlevel the model is started with
MaxLevel == 2

\* the joypad buttons M_Ticker tests
Directions == {"JP_UP", "JP_DOWN", "JP_LEFT", "JP_RIGHT"}
ExitButtons == {"JP_A", "JP_B", "JP_C"}

\* the button combinations given to M_Ticker
Buttons ==
    {{}, {"JP_UP"}, {"JP_DOWN"}, {"JP_LEFT"}, {"JP_RIGHT"},
     {"JP_UP", "JP_DOWN"}, {"JP_LEFT", "JP_RIGHT"}, {"JP_DOWN", "JP_RIGHT"},
     {"JP_A"}, {"JP_C", "JP_DOWN"}}

\* the values of ticon given to M_Ticker: the last that keeps the menu up
\* and the first that lets it exit
Ticons == {10, 11}

\* the start settings the game enters the menu with
StartSkills == {0, sk_nightmare}
StartMaps(ml) == {1, ml}

\* the cursor and the settings a call of M_Ticker starts from
Entry ==
    [cursorpos |-> cursorpos, currentplaymode |-> currentplaymode,
     playermap |-> playermap, playerskill |-> playerskill]

\* the menu at program start: static storage is zero, the game starts on
\* map 1
MenuAtStart ==
    /\ mpc = "off"
    /\ cursorframe = 0 /\ cursorcount = 0 /\ movecount = 0
    /\ playermap = 0 /\ currentplaymode = single /\ cursorpos = gamemode
    /\ playerskill = 0
    /\ startmap = 1 /\ startskill = 0 /\ starttype = single
    /\ maxlevel = 1
    /\ ticbuttons = {} /\ mret = 0
    /\ entered = Entry

\* r_phase8.c, R_Sprites: bounds and the state before any call
MaxMobj == 2
MaxPsprites == 1
MaxX == 1

SpritesAtStart ==
    /\ spc = "entry"
    /\ vissprites = <<>> /\ lastsprite_p = 1 /\ vissprite_p = 1
    /\ sprI = 0 /\ mobjCount = 0 /\ best = NULL
    /\ spropening = [x \in 0..MaxX |-> 0]
    /\ spriteCalls = <<>> /\ picked = <<>>
    /\ onEntry = <<>>

\* r_phase5.c, R_decode: bound and the state before any call
MaxLump == 4

DecodeAtStart ==
    /\ dpc = "running"
    /\ lump = <<>> /\ lumpStart = <<>>
    /\ input = 0 /\ output = <<>>
    /\ getidbyte = 0 /\ idbyte = 0
    /\ tokens = 0 /\ idRead = 0

\* M_Start: the graphics are cached, the cursor is reset and the settings
\* are taken from the start settings; movecount and currentplaymode are left
\* as they are
M_Start ==
    /\ mpc = "off"
    /\ mpc' = "menu"
    /\ cursorcount' = 0
    /\ cursorframe' = 0
    /\ cursorpos' = 0
    /\ playerskill' = startskill
    /\ playermap' = startmap
    /\ UNCHANGED <<movecount, currentplaymode, startmap, startskill, starttype,
                   maxlevel, ticbuttons, mret, entered>>
    /\ UNCHANGED <<progVars, obsVars, spriteVars, decodeVars>>

\* the skull animation: every fourth call the frame is toggled
AnimateSkull(frame, count) ==
    IF count + 1 = 4 THEN [cursorframe |-> 1 - frame, cursorcount |-> 0]
    ELSE [cursorframe |-> frame, cursorcount |-> count + 1]

\* movecount after a call with a direction held: reset at 3 on the level
\* item and at 6 everywhere, then incremented
MoveCount(cp, mc) ==
    LET fast == IF cp = level /\ mc = 3 THEN 0 ELSE mc
        slow == IF fast = 6 THEN 0 ELSE fast
    IN  slow + 1

\* a cursor that stops at the last and the first item
MoveCursor_stops(cp, buttons) ==
    LET down == IF "JP_DOWN" \in buttons
                THEN (IF cp + 1 = NUMMENUITEMS THEN cp ELSE cp + 1)
                ELSE cp
    IN  IF "JP_UP" \in buttons
        THEN (IF down - 1 = -1 THEN down ELSE down - 1)
        ELSE down

\* the cursor after JP_DOWN and then JP_UP are applied
MoveCursor(cp, buttons) ==
    LET down == IF "JP_DOWN" \in buttons
                THEN (IF cp + 1 = NUMMENUITEMS THEN 0 ELSE cp + 1)
                ELSE cp
    IN  IF "JP_UP" \in buttons
        THEN (IF down - 1 = -1 THEN NUMMENUITEMS - 1 ELSE down - 1)
        ELSE down

\* case gamemode: JP_RIGHT and then JP_LEFT applied to currentplaymode
StepPlayMode(v, buttons) ==
    LET right == IF "JP_RIGHT" \in buttons
                 THEN (IF v + 1 = NUMMODES THEN (v + 1) - 1 ELSE v + 1)
                 ELSE v
    IN  IF "JP_LEFT" \in buttons
        THEN (IF right - 1 = -1 THEN (right - 1) + 1 ELSE right - 1)
        ELSE right

\* case level: JP_RIGHT and then JP_LEFT applied to playermap
StepPlayerMap(v, buttons, ml) ==
    LET right == IF "JP_RIGHT" \in buttons
                 THEN (IF v + 1 = ml + 1 THEN (v + 1) - 1 ELSE v + 1)
                 ELSE v
    IN  IF "JP_LEFT" \in buttons
        THEN (IF right - 1 = 0 THEN (right - 1) + 1 ELSE right - 1)
        ELSE right

\* case difficulty: JP_RIGHT and then JP_LEFT applied to playerskill
StepPlayerSkill(v, buttons) ==
    LET right == IF "JP_RIGHT" \in buttons
                 THEN (IF v + 1 > sk_nightmare THEN (v + 1) - 1 ELSE v + 1)
                 ELSE v
    IN  IF "JP_LEFT" \in buttons
        THEN (IF right - 1 = -1 THEN (right - 1) + 1 ELSE right - 1)
        ELSE right

(* M_Ticker with the exit test taken one tic early (ticon >= 10). *)
M_Ticker_exitAt10(buttons, t) ==
    /\ mpc = "menu"
    /\ ticbuttons' = buttons
    /\ entered' = Entry
    /\ UNCHANGED <<maxlevel, progVars, obsVars, spriteVars, decodeVars>>
    /\ IF t >= 10 /\ buttons \cap ExitButtons # {}
       THEN /\ startmap' = playermap
            /\ startskill' = playerskill
            /\ starttype' = currentplaymode
            /\ mret' = 1
            /\ mpc' = "done"
            /\ UNCHANGED <<cursorframe, cursorcount, movecount, playermap,
                           currentplaymode, cursorpos, playerskill>>
       ELSE LET skull == AnimateSkull(cursorframe, cursorcount)
                held == buttons \cap Directions # {}
                mc == IF held THEN MoveCount(cursorpos, movecount) ELSE 0
                acts == held /\ mc = 1
                cp == IF acts THEN MoveCursor(cursorpos, buttons) ELSE cursorpos
            IN  /\ cursorframe' = skull.cursorframe
                /\ cursorcount' = skull.cursorcount
                /\ movecount' = mc
                /\ cursorpos' = cp
                /\ currentplaymode' =
                      IF acts /\ cp = gamemode
                      THEN StepPlayMode(currentplaymode, buttons)
                      ELSE currentplaymode
                /\ playermap' =
                      IF acts /\ cp = level
                      THEN StepPlayerMap(playermap, buttons, maxlevel)
                      ELSE playermap
                /\ playerskill' =
                      IF acts /\ cp = difficulty
                      THEN StepPlayerSkill(playerskill, buttons)
                      ELSE playerskill
                /\ mret' = 0
                /\ mpc' = "menu"
                /\ UNCHANGED <<startmap, startskill, starttype>>

\* M_Ticker: buttons is ticbuttons[consoleplayer] and t is ticon, as the
\* call reads them
M_Ticker(buttons, t) ==
    /\ mpc = "menu"
    /\ ticbuttons' = buttons
    /\ entered' = Entry
    /\ UNCHANGED <<maxlevel, progVars, obsVars, spriteVars, decodeVars>>
    /\ IF t > 10 /\ buttons \cap ExitButtons # {}
       THEN /\ startmap' = playermap
            /\ startskill' = playerskill
            /\ starttype' = currentplaymode
            /\ mret' = 1
            /\ mpc' = "done"
            /\ UNCHANGED <<cursorframe, cursorcount, movecount, playermap,
                           currentplaymode, cursorpos, playerskill>>
       ELSE LET skull == AnimateSkull(cursorframe, cursorcount)
                held == buttons \cap Directions # {}
                mc == IF held THEN MoveCount(cursorpos, movecount) ELSE 0
                acts == held /\ mc = 1
                cp == IF acts THEN MoveCursor(cursorpos, buttons) ELSE cursorpos
            IN  /\ cursorframe' = skull.cursorframe
                /\ cursorcount' = skull.cursorcount
                /\ movecount' = mc
                /\ cursorpos' = cp
                /\ currentplaymode' =
                      IF acts /\ cp = gamemode
                      THEN StepPlayMode(currentplaymode, buttons)
                      ELSE currentplaymode
                /\ playermap' =
                      IF acts /\ cp = level
                      THEN StepPlayerMap(playermap, buttons, maxlevel)
                      ELSE playermap
                /\ playerskill' =
                      IF acts /\ cp = difficulty
                      THEN StepPlayerSkill(playerskill, buttons)
                      ELSE playerskill
                /\ mret' = 0
                /\ mpc' = "menu"
                /\ UNCHANGED <<startmap, startskill, starttype>>

----------------------------------------------------------------------------
\* Helpers

Min(a, b) == IF a < b THEN a ELSE b

Range(s) == {s[i] : i \in DOMAIN s}

\* number of tracked pixels of a w*h buffer
Tracked(w, h) == Min(w * h, MaxPix)

\* a null pixel pointer (no real buffer is empty: w, h >= 1)
NullBuf == <<>>

\* the palette tables palette8 may point to, and their entries (CRY values)
Palettes == {"odd"}
PaletteEntry(table, i) == IF table = "odd" THEN i % 2 ELSE 0

\* the lookup tables the model is started with, from CRY value to colour
LUTs == {[c \in 0..1 |-> 1 - c]}

\* the palettes and lookup tables the converters are run with
PalettesConv == {"odd", "zero"}
LUTsConv == [0..1 -> Colors]

\* the source buffers given to the converters, byte by byte
ConvSources == [0..(MaxPix - 1) -> Bytes]

\* the source buffer of a graphic whose bytes all equal b
SrcData(b) == [p \in 0..(MaxPix - 1) |-> b]

\* outcomes of the allocations of one factory call: fail tells which
\* new (std::nothrow) returned null ("pixels": the pixel buffer, "object": the
\* TextureResource, "": none), ub is the outcome of a memset through null,
\* uninit is the value read from a pixel no code has written
Allocs == [fail : {"", "pixels", "object"}, ub : UBOutcomes, uninit : Colors]

----------------------------------------------------------------------------
\* rbTexture

\* rbTexture(): no GL texture yet
rbTexture == [id |-> 0, width |-> 0, height |-> 0, pixels |-> NullBuf]

rbInit(tex, w, h) == [tex EXCEPT !.width = w, !.height = h]

\* an upload that fills the texture with zeros
rbUpload_blank(tex, data) ==
    [tex EXCEPT !.id = 1, !.pixels = [i \in DOMAIN data |-> 0]]

\* create the GL texture object when there is none and load the pixels
rbUpload(tex, data) == [tex EXCEPT !.id = 1, !.pixels = data]

\* re-load the pixels of the existing texture object
rbUpdate(tex, data) == [tex EXCEPT !.pixels = data]

\* forget the GL texture object
abandonTexture(tex) == [tex EXCEPT !.id = 0, !.pixels = NullBuf]

----------------------------------------------------------------------------
\* TextureResource

TextureResource(tag, pixels, w, h) ==
    [tag |-> tag, m_tex |-> rbTexture, m_width |-> w, m_height |-> h,
     m_needUpdate |-> FALSE, m_data |-> pixels]

\* update() that forgets to clear the dirty flag
update_keepsFlag(tr) == [tr EXCEPT !.m_tex = rbUpdate(tr.m_tex, tr.m_data)]

\* a generate() that allocates the texture and uploads nothing
generate_initOnly(tr) ==
    [tr EXCEPT !.m_tex = rbInit(tr.m_tex, tr.m_width, tr.m_height)]

generate(tr) ==
    [tr EXCEPT !.m_tex = rbUpload(rbInit(tr.m_tex, tr.m_width, tr.m_height), tr.m_data)]

update(tr) ==
    [tr EXCEPT !.m_tex = rbUpdate(tr.m_tex, tr.m_data), !.m_needUpdate = FALSE]

\* a setUpdated() that uploads at once
setUpdated_eager(tr) ==
    [tr EXCEPT !.m_tex = rbUpdate(tr.m_tex, tr.m_data), !.m_needUpdate = TRUE]

setUpdated(tr) == [tr EXCEPT !.m_needUpdate = TRUE]

\* an entry of the upload log
Uploaded(h, how) == [res |-> h, via |-> how]

----------------------------------------------------------------------------
\* ResourceHive

\* the first registered resource with this name, or NULL
findResourceType(rs, hive, name) ==
    IF \E i \in DOMAIN hive : rs[hive[i]].tag = name
    THEN hive[CHOOSE i \in DOMAIN hive :
                 /\ rs[hive[i]].tag = name
                 /\ \A j \in DOMAIN hive : rs[hive[j]].tag = name => i <= j]
    ELSE NULL

addResource(hive, h) == Append(hive, h)

----------------------------------------------------------------------------
\* Palette converters

\* an 8-bit converter without the test for index 0
GL_8bppTo32bpp_noZeroTest(data, w, h, ok) ==
    IF ok
    THEN [p \in 0..(Tracked(w, h) - 1) |-> CRYToRGB[PaletteEntry(palette8, data[p])]]
    ELSE NullBuf

\* 8-bit graphic to 32-bit colour; ok: the buffer allocation succeeded
GL_8bppTo32bpp(data, w, h, ok) ==
    IF ok
    THEN [p \in 0..(Tracked(w, h) - 1) |->
            IF data[p] # 0 THEN CRYToRGB[PaletteEntry(palette8, data[p])] ELSE 0]
    ELSE NullBuf

\* a packed converter that tests the nibble, not the biased index, for 0
GL_8bppPackedTo32bpp_nibbleTest(data, w, h, palshift, ok, uninit) ==
    IF ok
    THEN [q \in 0..(Tracked(w, h) - 1) |->
            IF q < 2 * ((w * h) \div 2)
            THEN LET src == data[q \div 2]
                     nib == IF q % 2 = 0 THEN (src \div 16) % 16 ELSE src % 16
                     pix == ((palshift * 2) + nib) % 256
                 IN  IF nib # 0 THEN CRYToRGB[PaletteEntry(palette8, pix)] ELSE 0
            ELSE uninit]
    ELSE NullBuf

\* a packed converter that takes the first pixel of a byte from its low nibble
GL_8bppPackedTo32bpp_lowFirst(data, w, h, palshift, ok, uninit) ==
    IF ok
    THEN [q \in 0..(Tracked(w, h) - 1) |->
            IF q < 2 * ((w * h) \div 2)
            THEN LET src == data[q \div 2]
                     nib == IF q % 2 = 0 THEN src % 16 ELSE (src \div 16) % 16
                     pix == ((palshift * 2) + nib) % 256
                 IN  IF pix # 0 THEN CRYToRGB[PaletteEntry(palette8, pix)] ELSE 0
            ELSE uninit]
    ELSE NullBuf

\* a packed converter that keeps the biased index in an int
GL_8bppPackedTo32bpp_noWrap(data, w, h, palshift, ok, uninit) ==
    IF ok
    THEN [q \in 0..(Tracked(w, h) - 1) |->
            IF q < 2 * ((w * h) \div 2)
            THEN LET src == data[q \div 2]
                     nib == IF q % 2 = 0 THEN (src \div 16) % 16 ELSE src % 16
                     pix == (palshift * 2) + nib
                 IN  IF pix # 0 THEN CRYToRGB[PaletteEntry(palette8, pix)] ELSE 0
            ELSE uninit]
    ELSE NullBuf

\* 8-bit packed graphic to 32-bit colour: byte p gives pixels 2p and 2p+1;
\* the loop runs for p < w*h/2, so the last pixel of an odd-sized buffer is
\* never written and holds uninit
GL_8bppPackedTo32bpp(data, w, h, palshift, ok, uninit) ==
    IF ok
    THEN [q \in 0..(Tracked(w, h) - 1) |->
            IF q < 2 * ((w * h) \div 2)
            THEN LET src == data[q \div 2]
                     nib == IF q % 2 = 0 THEN (src \div 16) % 16 ELSE src % 16
                     pix == ((palshift * 2) + nib) % 256
                 IN  IF pix # 0 THEN CRYToRGB[PaletteEntry(palette8, pix)] ELSE 0
            ELSE uninit]
    ELSE NullBuf

----------------------------------------------------------------------------
\* The texture resource factory

\* hal_platform.fatalError(msg): the process ends with the message
fatalError(msg) == [pc |-> "fatal", msg |-> msg]

\* an entry of the log of factory calls: the name passed, and the allocation
\* that failed in the call ("" when none did)
Called(name, failed) == [name |-> name, failed |-> failed]

\* a factory body whose switch makes a blank buffer for every selector
CreateTextureResource_blankDefault(rs, hive, name, data, width, height, restype, palshift, alloc) ==
    LET tr == Len(rs) + 1
        pixels == [p \in 0..(Tracked(width, height) - 1) |-> 0]
    IN  [rs |-> Append(rs, generate(TextureResource(name, pixels, width, height))),
         hive |-> addResource(hive, tr),
         ret |-> tr,
         uploads |-> <<Uploaded(tr, "generate")>>,
         converted |-> FALSE,
         trap |-> FALSE,
         failed |-> ""]

\* The body of GL_NewTextureResource when the name is not in the hive: the
\* new rs and hive, the returned handle, the uploads made, whether a
\* converter ran, the allocation that failed, and whether the call trapped
\* instead of returning.
CreateTextureResource(rs, hive, name, data, width, height, restype, palshift, alloc) ==
    LET pixok == alloc.fail # "pixels"
        pixels ==
            CASE restype = "RES_FRAMEBUFFER" ->
                   IF pixok
                   THEN [p \in 0..(Tracked(width, height) - 1) |-> 0]
                   ELSE NullBuf
              [] restype = "RES_8BIT" ->
                   GL_8bppTo32bpp(data, width, height, pixok)
              [] restype = "RES_8BIT_PACKED" ->
                   GL_8bppPackedTo32bpp(data, width, height, palshift,
                                        pixok, alloc.uninit)
              [] OTHER -> NullBuf
        conv == restype \in {"RES_8BIT", "RES_8BIT_PACKED"}
        tr == Len(rs) + 1
        none == [rs |-> rs, hive |-> hive, ret |-> NULL, uploads |-> <<>>,
                 converted |-> conv, trap |-> FALSE,
                 failed |-> IF restype \in ResTypes /\ ~pixok THEN "pixels" ELSE ""]
    IN  IF restype = "RES_FRAMEBUFFER" /\ ~pixok /\ alloc.ub = "trap"
        THEN \* std::memset(nullptr, 0, n) faults
             [none EXCEPT !.trap = TRUE]
        ELSE IF pixels # NullBuf
        THEN IF alloc.fail # "object"
             THEN [rs |-> Append(rs, generate(TextureResource(name, pixels, width, height))),
                   hive |-> addResource(hive, tr),
                   ret |-> tr,
                   uploads |-> <<Uploaded(tr, "generate")>>,
                   converted |-> conv,
                   trap |-> FALSE,
                   failed |-> ""]
             ELSE [none EXCEPT !.failed = "object"]
        ELSE none

\* a factory that registers the resource it found once more
NewTextureResource_reAdd(rs, hive, name, data, width, height, restype, palshift, alloc) ==
    LET found == findResourceType(rs, hive, name)
    IN  IF found # NULL
        THEN [rs |-> rs, hive |-> addResource(hive, found), ret |-> found,
              uploads |-> <<>>, converted |-> FALSE, trap |-> FALSE, failed |-> ""]
        ELSE CreateTextureResource(rs, hive, name, data, width, height, restype,
                                   palshift, alloc)

\* the factory without its lookup: every call creates
NewTextureResource_noLookup(rs, hive, name, data, width, height, restype, palshift, alloc) ==
    CreateTextureResource(rs, hive, name, data, width, height, restype, palshift, alloc)

\* What one call of GL_NewTextureResource does to the resources rs and the hive
NewTextureResource(rs, hive, name, data, width, height, restype, palshift, alloc) ==
    LET found == findResourceType(rs, hive, name)
    IN  IF found # NULL
        THEN [rs |-> rs, hive |-> hive, ret |-> found, uploads |-> <<>>,
              converted |-> FALSE, trap |-> FALSE, failed |-> ""]
        ELSE CreateTextureResource(rs, hive, name, data, width, height, restype,
                                   palshift, alloc)

----------------------------------------------------------------------------
\* What the last operation did

Observe(o, r, u, e, f, c, v) ==
    /\ op' = o
    /\ ret' = r
    /\ uploads' = u
    /\ executed' = e
    /\ flushed' = f
    /\ calls' = c
    /\ converted' = v
    /\ request' = <<>>
    /\ refired' = (o = "VALLOCATION" /\ op = "VALLOCATION")

\* the arguments of a factory call, as the game passed them
Requested(name, data, width, height, restype, palshift) ==
    [name |-> name, data |-> data, width |-> width, height |-> height,
     restype |-> restype, palshift |-> palshift]

\* the process dies inside operation o
Crash(o, c) ==
    /\ pc' = "crashed"
    /\ UNCHANGED <<resources, graphics, framebuffer160, framebuffer320,
                   drawCommands, lateDrawCommands, palette8, CRYToRGB, rbState, menuVars, spriteVars, decodeVars,
                   frameLog, fatalMsg>>
    /\ Observe(o, NULL, <<>>, <<>>, <<>>, c, FALSE)

----------------------------------------------------------------------------
\* Operations

Init ==
    /\ pc = "startup"
    /\ resources = <<>>
    /\ graphics = <<>>
    /\ framebuffer160 = NULL
    /\ framebuffer320 = NULL
    /\ drawCommands = <<>>
    /\ lateDrawCommands = <<>>
    /\ palette8 \in Palettes
    /\ CRYToRGB \in LUTs
    /\ rbState = rbInitial
    /\ MenuAtStart
    /\ SpritesAtStart
    /\ DecodeAtStart
    /\ op = "start"
    /\ ret = NULL
    /\ uploads = <<>>
    /\ executed = <<>>
    /\ flushed = <<>>
    /\ frameLog = <<>>
    /\ calls = <<>>
    /\ converted = FALSE
    /\ request = <<>>
    /\ refired = FALSE
    /\ fatalMsg = ""

\* no allocation is attempted on a cache hit
AllocsFor(name) ==
    IF findResourceType(resources, graphics, name) = NULL THEN Allocs
    ELSE {[fail |-> "", ub |-> "continue", uninit |-> 0]}

GL_NewTextureResource(name, data, width, height, restype, palshift) ==
    /\ pc = "running"
    /\ \E alloc \in AllocsFor(name) :
         LET r == NewTextureResource(resources, graphics, name, data, width,
                                     height, restype, palshift, alloc)
             o == "GL_NewTextureResource"
             c == <<Called(name, r.failed)>>
         IN  IF r.trap
             THEN Crash(o, c)
             ELSE /\ resources' = r.rs
                  /\ graphics' = r.hive
                  /\ UNCHANGED <<pc, framebuffer160, framebuffer320, drawCommands,
                                 lateDrawCommands, palette8, CRYToRGB, rbState, menuVars, spriteVars, decodeVars, frameLog,
                                 fatalMsg>>
                  /\ op' = o
                  /\ ret' = r.ret
                  /\ uploads' = r.uploads
                  /\ executed' = <<>>
                  /\ flushed' = <<>>
                  /\ calls' = c
                  /\ converted' = r.converted
                  /\ request' = Requested(name, data, width, height, restype, palshift)
                  /\ refired' = FALSE

\* GL_InitFramebufferTextures without the check of the first framebuffer
InitFramebufferTextures_noCheck160(rs, hive, a1, a2) ==
    LET r1 == NewTextureResource(rs, hive, "framebuffer", NullBuf,
                                 CALICO_ORIG_GAMESCREENWIDTH,
                                 CALICO_ORIG_GAMESCREENHEIGHT, "RES_FRAMEBUFFER", 0, a1)
        r2 == NewTextureResource(r1.rs, r1.hive, "framebuffer320", NullBuf,
                                 CALICO_ORIG_SCREENWIDTH,
                                 CALICO_ORIG_SCREENHEIGHT, "RES_FRAMEBUFFER", 0, a2)
        c2 == <<Called("framebuffer", r1.failed), Called("framebuffer320", r2.failed)>>
    IN  IF r1.trap \/ r2.trap
        THEN [rs |-> r1.rs, hive |-> r1.hive, fb160 |-> r1.ret, fb320 |-> NULL,
              pc |-> "crashed", msg |-> "", calls |-> c2, uploads |-> r1.uploads]
        ELSE [rs |-> r2.rs, hive |-> r2.hive, fb160 |-> r1.ret, fb320 |-> r2.ret,
              pc |-> IF r2.ret = NULL THEN "fatal" ELSE "running",
              msg |-> IF r2.ret = NULL THEN Fatal320 ELSE "", calls |-> c2,
              uploads |-> r1.uploads \o r2.uploads]

\* What GL_InitFramebufferTextures does to the resources rs and the hive,
\* with a1 and a2 the allocation outcomes of its two factory calls.
InitFramebufferTextures(rs, hive, a1, a2) ==
    LET r1 == NewTextureResource(rs, hive, "framebuffer", NullBuf,
                                 CALICO_ORIG_GAMESCREENWIDTH,
                                 CALICO_ORIG_GAMESCREENHEIGHT, "RES_FRAMEBUFFER", 0, a1)
        r2 == NewTextureResource(r1.rs, r1.hive, "framebuffer320", NullBuf,
                                 CALICO_ORIG_SCREENWIDTH,
                                 CALICO_ORIG_SCREENHEIGHT, "RES_FRAMEBUFFER", 0, a2)
        c1 == <<Called("framebuffer", r1.failed)>>
        c2 == <<Called("framebuffer", r1.failed), Called("framebuffer320", r2.failed)>>
        first == [rs |-> r1.rs, hive |-> r1.hive, fb160 |-> r1.ret, fb320 |-> NULL,
                  pc |-> "crashed", msg |-> "", calls |-> c1, uploads |-> r1.uploads]
    IN  IF r1.trap
        THEN first
        ELSE IF r1.ret = NULL
        THEN [first EXCEPT !.pc = fatalError(Fatal160).pc,
                           !.msg = fatalError(Fatal160).msg]
        ELSE IF r2.trap
        THEN [first EXCEPT !.calls = c2]
        ELSE IF r2.ret = NULL
        THEN [first EXCEPT !.rs = r2.rs, !.hive = r2.hive, !.calls = c2,
                           !.pc = fatalError(Fatal320).pc,
                           !.msg = fatalError(Fatal320).msg]
        ELSE [rs |-> r2.rs, hive |-> r2.hive, fb160 |-> r1.ret, fb320 |-> r2.ret,
              pc |-> "running", msg |-> "", calls |-> c2,
              uploads |-> r1.uploads \o r2.uploads]

GL_InitFramebufferTextures ==
    /\ pc = "startup"
    /\ \E a1 \in Allocs, a2 \in Allocs :
         LET r == InitFramebufferTextures(resources, graphics, a1, a2)
         IN  /\ pc' = r.pc
             /\ resources' = r.rs
             /\ graphics' = r.hive
             /\ framebuffer160' = r.fb160
             /\ framebuffer320' = r.fb320
             /\ fatalMsg' = r.msg
             /\ UNCHANGED <<drawCommands, lateDrawCommands, palette8, CRYToRGB, rbState, menuVars, spriteVars, decodeVars, frameLog>>
             /\ Observe("GL_InitFramebufferTextures", NULL, r.uploads,
                        <<>>, <<>>, r.calls, FALSE)

\* the handles game code can hold
Handles == 1..Len(resources)

\* the handles of the resources with these names
Held(names) == {h \in Handles : resources[h].tag \in names}

\* an operation that leaves the program state alone
Reads(o, r) ==
    /\ UNCHANGED <<progVars, frameLog, fatalMsg, menuVars, spriteVars, decodeVars>>
    /\ Observe(o, r, <<>>, <<>>, <<>>, <<>>, FALSE)

\* an operation that changes only the TextureResource objects
Touches(o, rs, u) ==
    /\ resources' = rs
    /\ UNCHANGED <<pc, graphics, framebuffer160, framebuffer320, drawCommands,
                   lateDrawCommands, palette8, CRYToRGB, rbState, menuVars, spriteVars, decodeVars, frameLog, fatalMsg>>
    /\ Observe(o, NULL, u, <<>>, <<>>, <<>>, FALSE)

\* a lookup made with the factory: a missing name gets a blank resource
GL_CheckForTextureResource_creates(name) ==
    /\ pc = "running"
    /\ LET r == NewTextureResource(resources, graphics, name, NullBuf, 1, 1,
                                   "RES_FRAMEBUFFER", 0,
                                   [fail |-> "", ub |-> "continue", uninit |-> 0])
       IN  /\ resources' = r.rs
           /\ graphics' = r.hive
           /\ UNCHANGED <<pc, framebuffer160, framebuffer320, drawCommands,
                          lateDrawCommands, palette8, CRYToRGB, rbState, menuVars, spriteVars, decodeVars, frameLog, fatalMsg>>
           /\ Observe("GL_CheckForTextureResource", r.ret, r.uploads, <<>>, <<>>,
                      <<>>, FALSE)

GL_CheckForTextureResource(name) ==
    /\ pc = "running"
    /\ Reads("GL_CheckForTextureResource",
             findResourceType(resources, graphics, name))

\* the sync without its test of the dirty flag
UpdateIfNeeded_always(rs, h) ==
    [rs |-> [rs EXCEPT ![h] = update(rs[h])], uploads |-> <<Uploaded(h, "update")>>]

\* if(tr->needsUpdate()) tr->update(); the resources after it and the
\* uploads it made
UpdateIfNeeded(rs, h) ==
    IF rs[h].m_needUpdate
    THEN [rs |-> [rs EXCEPT ![h] = update(rs[h])], uploads |-> <<Uploaded(h, "update")>>]
    ELSE [rs |-> rs, uploads |-> <<>>]

GL_UpdateTextureResource(resource) ==
    /\ pc = "running"
    /\ Touches("GL_UpdateTextureResource",
               UpdateIfNeeded(resources, resource).rs,
               UpdateIfNeeded(resources, resource).uploads)

\* a store whose writes set the dirty flag themselves
GL_GetTextureResourceStore_marks(resource, i, c) ==
    /\ pc = "running"
    /\ i \in DOMAIN resources[resource].m_data
    /\ resources' = [resources EXCEPT ![resource].m_data[i] = c,
                                      ![resource].m_needUpdate = TRUE]
    /\ UNCHANGED <<pc, graphics, framebuffer160, framebuffer320, drawCommands,
                   lateDrawCommands, palette8, CRYToRGB, rbState, menuVars, spriteVars, decodeVars, frameLog, fatalMsg>>
    /\ Observe("GL_GetTextureResourceStore", resource, <<>>, <<>>,
               <<>>, <<>>, FALSE)

\* game code writes colour c to pixel i of the store the accessor returned
GL_GetTextureResourceStore(resource, i, c) ==
    /\ pc = "running"
    /\ i \in DOMAIN resources[resource].m_data
    /\ resources' = [resources EXCEPT ![resource].m_data[i] = c]
    /\ UNCHANGED <<pc, graphics, framebuffer160, framebuffer320, drawCommands,
                   lateDrawCommands, palette8, CRYToRGB, rbState, menuVars, spriteVars, decodeVars, frameLog, fatalMsg>>
    /\ Observe("GL_GetTextureResourceStore", resource, <<>>, <<>>,
               <<>>, <<>>, FALSE)

GL_TextureResourceSetUpdated(resource) ==
    /\ pc = "running"
    /\ Touches("GL_TextureResourceSetUpdated",
               [resources EXCEPT ![resource] = setUpdated(resources[resource])],
               <<>>)

\* a switch with its two cases exchanged
FramebufferOf_swapped(which) ==
    CASE which = "FB_160" -> framebuffer320
      [] which = "FB_320" -> framebuffer160
      [] OTHER -> NULL

\* a switch whose default case falls into FB_160
FramebufferOf_default160(which) ==
    IF which = "FB_320" THEN framebuffer320 ELSE framebuffer160

\* switch(which) of the framebuffer operations; NULL for any other selector
FramebufferOf(which) ==
    CASE which = "FB_160" -> framebuffer160
      [] which = "FB_320" -> framebuffer320
      [] OTHER -> NULL

GL_TextureResourceGetFramebuffer(which) ==
    /\ pc = "running"
    /\ Reads("GL_TextureResourceGetFramebuffer", FramebufferOf(which))

\* a clear that does not mark the resource dirty
ClearTextureResource_noMark(rs, resource, clearColor) ==
    IF resource # NULL
    THEN LET tex == rs[resource].m_tex
             cleared == [i \in 0..(Tracked(tex.width, tex.height) - 1) |-> clearColor]
         IN  [rs EXCEPT ![resource].m_data = cleared]
    ELSE rs

\* the resources after GL_ClearTextureResource(resource, clearColor)
ClearTextureResource(rs, resource, clearColor) ==
    IF resource # NULL
    THEN LET tex == rs[resource].m_tex
             cleared == [i \in 0..(Tracked(tex.width, tex.height) - 1) |-> clearColor]
         IN  [rs EXCEPT ![resource] = setUpdated([rs[resource] EXCEPT !.m_data = cleared])]
    ELSE rs

GL_ClearTextureResource(resource, clearColor) ==
    /\ pc = "running"
    /\ Touches(IF resource = NULL THEN "GL_ClearTextureResource(NULL)"
               ELSE "GL_ClearTextureResource",
               ClearTextureResource(resources, resource, clearColor), <<>>)

----------------------------------------------------------------------------
\* Draw command lists

\* a command built with x and y exchanged
drawcommand_t_swapped(res, x, y, w, h) ==
    [res |-> res, x |-> y, y |-> x, w |-> w, h |-> h]

drawcommand_t(res, x, y, w, h) == [res |-> res, x |-> x, y |-> y, w |-> w, h |-> h]

\* BDList: insert links an item in before the head, that is at the tail
bdInsert(list, item) == Append(list, item)

\* an entry of the log of enqueue calls: the arguments of a call that was
\* given a resource, and whether it was the late variant
Enqueued(late, res, x, y, w, h) ==
    [late |-> late, res |-> res, x |-> x, y |-> y, w |-> w, h |-> h]

\* the body shared by GL_AddDrawCommand and GL_AddLateDrawCommand after the
\* null check: which list the command is inserted in is given by late
AddCommand(o, late, res, x, y, w, h) ==
    LET dc == drawcommand_t(res, x, y, w, h)
    IN  /\ drawCommands' = IF late THEN drawCommands ELSE bdInsert(drawCommands, dc)
        /\ lateDrawCommands' = IF late THEN bdInsert(lateDrawCommands, dc)
                               ELSE lateDrawCommands
        /\ resources' = UpdateIfNeeded(resources, res).rs
        /\ frameLog' = Append(frameLog, Enqueued(late, res, x, y, w, h))
        /\ UNCHANGED <<pc, graphics, framebuffer160, framebuffer320, palette8,
                       CRYToRGB, rbState, menuVars, spriteVars, decodeVars, fatalMsg>>
        /\ Observe(o, NULL, UpdateIfNeeded(resources, res).uploads, <<>>, <<>>,
                   <<>>, FALSE)

\* GL_AddDrawCommand without its null check: the command is inserted and
\* the process dies reading the dirty flag through the null pointer
GL_AddDrawCommand_noNullCheck(res, x, y, w, h) ==
    /\ pc = "running"
    /\ IF res = NULL
       THEN /\ pc' = "crashed"
            /\ drawCommands' = Append(drawCommands, [res |-> res, x |-> x, y |-> y,
                                                     w |-> w, h |-> h])
            /\ UNCHANGED <<resources, graphics, framebuffer160, framebuffer320,
                           lateDrawCommands, palette8, CRYToRGB, rbState, menuVars, spriteVars, decodeVars, frameLog, fatalMsg>>
            /\ Observe("GL_AddDrawCommand(NULL)", NULL, <<>>, <<>>, <<>>, <<>>, FALSE)
       ELSE AddCommand("GL_AddDrawCommand", FALSE, res, x, y, w, h)

GL_AddDrawCommand(res, x, y, w, h) ==
    /\ pc = "running"
    /\ IF res = NULL
       THEN Reads("GL_AddDrawCommand(NULL)", NULL)
       ELSE AddCommand("GL_AddDrawCommand", FALSE, res, x, y, w, h)

GL_AddLateDrawCommand(res, x, y, w, h) ==
    /\ pc = "running"
    /\ IF res = NULL
       THEN Reads("GL_AddLateDrawCommand(NULL)", NULL)
       ELSE AddCommand("GL_AddLateDrawCommand", TRUE, res, x, y, w, h)

\* a fold that links the late commands in at the front of the normal list
FoldLate_front(dc, late) == late \o dc

\* the fold loop of GL_executeDrawCommands: the first late command is
\* removed from the late list and inserted in the normal list, until the
\* late list is empty
RECURSIVE FoldLate(_, _)
FoldLate(dc, late) ==
    IF late = <<>> THEN dc
    ELSE FoldLate(bdInsert(dc, Head(late)), Tail(late))

\* GL_executeDrawCommands: the two lists after it, and the commands drawn
ExecuteDrawCommands(dc, late) ==
    LET folded == FoldLate(dc, late)
    IN  [dc |-> folded, late |-> <<>>, drawn |-> folded]

\* default states that leave blending as it is
GL_setDefaultStates_noBlend(st) ==
    [st EXCEPT !.cull = TRUE, !.cullFace = "RB_GLCULL_FRONT", !.depthTest = FALSE,
               !.alphaTest = TRUE]

\* GL_setDefaultStates: the render state after it
GL_setDefaultStates(st) ==
    [st EXCEPT !.cull = TRUE, !.cullFace = "RB_GLCULL_FRONT", !.depthTest = FALSE,
               !.blend = TRUE, !.alphaTest = TRUE,
               !.blendSrc = "RB_GLSRC_SRC_ALPHA",
               !.blendDst = "RB_GLDST_ONE_MINUS_SRC_ALPHA"]

\* GL_drawRectImmediate: sets the states and draws two triangles; the
\* render state after it
GL_drawRectImmediate(st) == GL_setDefaultStates(st)

\* the render state after the first n commands of a frame are executed
RECURSIVE StateAfter(_, _)
StateAfter(st, n) ==
    IF n = 0 THEN st ELSE GL_drawRectImmediate(StateAfter(st, n - 1))

\* a clear that removes the first command only
ClearDrawCommands_first(dc) == IF dc = <<>> THEN <<>> ELSE Tail(dc)

\* GL_clearDrawCommands: every command is removed and freed
ClearDrawCommands(dc) == <<>>

GL_RenderFrame ==
    /\ pc = "running"
    /\ LET x == ExecuteDrawCommands(drawCommands, lateDrawCommands)
       IN  /\ drawCommands' = ClearDrawCommands(x.dc)
           /\ lateDrawCommands' = x.late
           /\ frameLog' = <<>>
           /\ rbState' = StateAfter(rbState, Len(x.drawn))
           /\ UNCHANGED <<pc, resources, graphics, framebuffer160, framebuffer320,
                          palette8, CRYToRGB, fatalMsg, menuVars, spriteVars, decodeVars>>
           /\ Observe("GL_RenderFrame", NULL, <<>>, x.drawn, frameLog,
                      <<>>, FALSE)

----------------------------------------------------------------------------
\* Software framebuffers

GL_GetFramebuffer(which) ==
    /\ pc = "running"
    /\ Reads("GL_GetFramebuffer", FramebufferOf(which))

GL_UpdateFramebuffer(which) ==
    /\ pc = "running"
    /\ LET fb == FramebufferOf(which)
           o == "GL_UpdateFramebuffer"
       IN  IF fb = NULL
           THEN IF which \in FbWhich THEN Crash(o, <<>>) ELSE Reads(o, NULL)
           ELSE Touches(o, UpdateIfNeeded(resources, fb).rs,
                        UpdateIfNeeded(resources, fb).uploads)

GL_ClearFramebuffer(which, clearColor) ==
    /\ pc = "running"
    /\ LET o == "GL_ClearFramebuffer"
       IN  IF which \in FbWhich
           THEN Touches(o, ClearTextureResource(resources, FramebufferOf(which),
                                                clearColor), <<>>)
           ELSE Reads(o, NULL)

GL_FramebufferSetUpdated(which) ==
    /\ pc = "running"
    /\ LET fb == FramebufferOf(which)
           o == "GL_FramebufferSetUpdated"
       IN  IF fb = NULL
           THEN IF which \in FbWhich THEN Crash(o, <<>>) ELSE Reads(o, NULL)
           ELSE Touches(o, [resources EXCEPT ![fb] = setUpdated(resources[fb])], <<>>)

GL_AddFramebuffer(which) ==
    /\ pc = "running"
    /\ LET fb == FramebufferOf(which)
           o == "GL_AddFramebuffer"
       IN  IF which \notin FbWhich \/ fb = NULL
           THEN Reads(o, NULL)
           ELSE IF which = "FB_160"
           THEN AddCommand(o, FALSE, fb, 0, 2, CALICO_ORIG_SCREENWIDTH,
                           CALICO_ORIG_GAMESCREENHEIGHT)
           ELSE AddCommand(o, FALSE, fb, 0, 0, CALICO_ORIG_SCREENWIDTH,
                           CALICO_ORIG_SCREENHEIGHT)

----------------------------------------------------------------------------
\* Resolution change

\* a visitor that also clears the dirty flag
Regenerate_clearsFlag(tr) ==
    [generate([tr EXCEPT !.m_tex = abandonTexture(tr.m_tex)]) EXCEPT !.m_needUpdate = FALSE]

\* a visitor that also flips the dirty flag
Regenerate_flipsFlag(tr) ==
    [generate([tr EXCEPT !.m_tex = abandonTexture(tr.m_tex)])
        EXCEPT !.m_needUpdate = ~tr.m_needUpdate]

\* a visitor that abandons the texture and does not generate it again
Regenerate_abandonOnly(tr) == [tr EXCEPT !.m_tex = abandonTexture(tr.m_tex)]

\* the visitor of the VALLOCATION(graphics) handler
Regenerate(tr) == generate([tr EXCEPT !.m_tex = abandonTexture(tr.m_tex)])

\* a handler whose walk of the hive stops before the last entry
VALLOCATION_graphics_skipsLast ==
    /\ pc = "running"
    /\ Touches("VALLOCATION",
               [h \in DOMAIN resources |->
                   IF h \in Range(SubSeq(graphics, 1, Len(graphics) - 1))
                   THEN Regenerate(resources[h])
                   ELSE resources[h]],
               [i \in 1..(Len(graphics) - 1) |-> Uploaded(graphics[i], "generate")])

\* forEachOfType<TextureResource>: every resource of the hive, in hive order
VALLOCATION_graphics ==
    /\ pc = "running"
    /\ Touches("VALLOCATION",
               [h \in DOMAIN resources |->
                   IF h \in Range(graphics) THEN Regenerate(resources[h])
                   ELSE resources[h]],
               [i \in DOMAIN graphics |-> Uploaded(graphics[i], "generate")])

----------------------------------------------------------------------------
\* r_phase8.c: R_Sprites

\* the largest int, which R_Sprites stores in the xscale of a sprite it is
\* done with
MAXINT == 2147483647
SCREENHEIGHT == 180

\* the xscale values of the sprites R_Sprites is called with
Scales == {1, 2, MAXINT}

\* sequences over S of length 0..n
SeqsUpTo(S, n) == UNION {[1..k -> S] : k \in 0..n}

\* the vissprites of things, with and without a patch, and of the player's
\* weapon (x1 > x2 is an empty column range)
MobjSprites == [xscale : Scales, patch : {NULL, 1}, x1 : {0}, x2 : {0}]
Psprites == [xscale : {1}, patch : {1}, x1 : 0..MaxX, x2 : 0..MaxX]

\* a test that lets a sprite of equal scale replace the best so far
IsBest_orEqual(xscale, bestscale) == xscale <= bestscale

\* ds->xscale < bestscale
IsBest(xscale, bestscale) == xscale < bestscale

\* the scan of [vissprites, lastsprite_p) from ds on: the value of best
\* after it, which is the value before it when no sprite passes the test
RECURSIVE ScanBest(_, _, _, _, _)
ScanBest(arr, ds, last, bestscale, b) ==
    IF ds = last THEN b
    ELSE IF IsBest(arr[ds].xscale, bestscale)
         THEN ScanBest(arr, ds + 1, last, arr[ds].xscale, ds)
         ELSE ScanBest(arr, ds + 1, last, bestscale, b)

\* the calls made for a sprite that has a patch
ClipAndDraw(vis) == <<<<"R_ClipVisSprite", vis>>, <<"R_DrawVisSprite", vis>>>>

\* the loop body R_Sprites runs next, from the tests of its two loops
LoopAt(i, n, last, vp) ==
    IF i < n THEN "mobj"
    ELSE IF last < vp THEN "psprites" ELSE "returned"

\* a clearing loop that stops one column early
ClearOpening_short(sp, i, stopx) ==
    [x \in DOMAIN sp |-> IF i <= x /\ x < stopx - 1 THEN SCREENHEIGHT ELSE sp[x]]

\* while(i < stopx) { spropening[i] = SCREENHEIGHT; ++i; }
RECURSIVE ClearOpening(_, _, _)
ClearOpening(sp, i, stopx) ==
    IF i < stopx
    THEN ClearOpening([sp EXCEPT ![i] = SCREENHEIGHT], i + 1, stopx)
    ELSE sp

\* the declarations of R_Sprites and the first test of its mobj loop
R_Sprites_entry ==
    /\ spc = "entry"
    /\ sprI' = 0
    /\ mobjCount' = lastsprite_p - 1
    /\ best' = NULL
    /\ spc' = LoopAt(0, lastsprite_p - 1, lastsprite_p, vissprite_p)
    /\ UNCHANGED <<vissprites, lastsprite_p, vissprite_p, spropening,
                   spriteCalls, picked, onEntry>>
    /\ UNCHANGED <<progVars, obsVars, menuVars, decodeVars>>

\* one iteration of the mobj loop. With best still NULL after the scan,
\* best->patch reads through a null pointer: the read traps, or it yields
\* garbage and the store to best->xscale is lost
R_Sprites_mobj(outcome, garbage) ==
    /\ spc = "mobj"
    /\ LET b == ScanBest(vissprites, 1, lastsprite_p, MAXINT, best)
       IN  /\ best' = b
           /\ picked' = Append(picked, b)
           /\ IF b = NULL
              THEN IF outcome = "trap"
                   THEN /\ spc' = "crashed"
                        /\ UNCHANGED <<vissprites, sprI, spriteCalls>>
                   ELSE /\ spriteCalls' = IF garbage # NULL
                                          THEN spriteCalls \o ClipAndDraw(NULL)
                                          ELSE spriteCalls
                        /\ sprI' = sprI + 1
                        /\ spc' = LoopAt(sprI + 1, mobjCount, lastsprite_p,
                                         vissprite_p)
                        /\ UNCHANGED vissprites
              ELSE /\ spriteCalls' = IF vissprites[b].patch # NULL
                                     THEN spriteCalls \o ClipAndDraw(b)
                                     ELSE spriteCalls
                   /\ vissprites' = [vissprites EXCEPT ![b].xscale = MAXINT]
                   /\ sprI' = sprI + 1
                   /\ spc' = LoopAt(sprI + 1, mobjCount, lastsprite_p,
                                    vissprite_p)
    /\ UNCHANGED <<lastsprite_p, vissprite_p, mobjCount, spropening, onEntry>>
    /\ UNCHANGED <<progVars, obsVars, menuVars, decodeVars>>

\* one iteration of the psprite loop
R_Sprites_psprite ==
    /\ spc = "psprites"
    /\ LET vis == vissprites[lastsprite_p]
           stopx == vis.x2 + 1
       IN  /\ spropening' = ClearOpening(spropening, vis.x1, stopx)
           /\ sprI' = IF vis.x1 < stopx THEN stopx ELSE vis.x1
    /\ spriteCalls' = Append(spriteCalls, <<"R_DrawVisSprite", lastsprite_p>>)
    /\ lastsprite_p' = lastsprite_p + 1
    /\ spc' = LoopAt(mobjCount, mobjCount, lastsprite_p + 1, vissprite_p)
    /\ UNCHANGED <<vissprites, vissprite_p, mobjCount, best, picked, onEntry>>
    /\ UNCHANGED <<progVars, obsVars, menuVars, decodeVars>>

----------------------------------------------------------------------------
\* r_phase5.c: R_decode

LENSHIFT == 4

\* the byte values the compressed data is made of: as id bytes no, the
\* first, the second, the fifth, and the second and fifth token a
\* back-reference; as second bytes of a back-reference the terminator, two
\* and three pixels from one back, the terminator, three pixels from two back
DecodeBytes == {0, 1, 2, 16, 18}

\* the entries of vgatojag[] at those bytes
vgatojag(b) ==
    CASE b = 0 -> 1
      [] b = 1 -> 51487
      [] b = 2 -> 55319
      [] b = 16 -> 38655
      [] b = 18 -> 42995

\* what precedes the bytes R_decode is left to find: nothing; an id byte 0
\* with its eight literals; an id byte 16 with four literals, a
\* back-reference of two pixels from two back and three literals
LumpStarts ==
    {<<>>,
     <<0, 1, 2, 16, 18, 1, 2, 16, 1>>,
     <<16, 1, 2, 16, 18, 0, 17, 2, 1, 18>>}

\* what a read before the start of the output buffer may yield
JunkPixels == {0, 51487}

\* the byte at offset k - 1 of input: one the call was given or has read, or
\* the next of the bytes that follow in memory
Mem(k, fresh) == IF k <= Len(lump) THEN lump[k] ELSE fresh[k - Len(lump)]

\* a counter that asks for a new id byte every fourth token
NextGetIdByte_mod4(g) == (g + 1) % 4

\* getidbyte = (getidbyte + 1) & 7
NextGetIdByte(g) == (g + 1) % 8

\* pos = *input++ << LENSHIFT; pos = pos | (*input >> LENSHIFT): the
\* shifted first byte has no bit below LENSHIFT, so the or is a sum
Pos(b1, b2) == (b1 * (2 ^ LENSHIFT)) + (b2 \div (2 ^ LENSHIFT))

\* len = (*input++ & 0xf) + 1
BackRefLen(b2) == (b2 % 16) + 1

\* for(i = 0; i < len; i++) *output++ = *source++, with source at index src
\* of the output (index 1 is the first pixel); a source before the first
\* pixel is outside the buffer and reads whatever is there
RECURSIVE CopyPixels(_, _, _, _)
CopyPixels(out, src, n, junk) ==
    IF n = 0 THEN out
    ELSE CopyPixels(Append(out, IF src >= 1 THEN out[src] ELSE junk[n]),
                    src + 1, n - 1, junk)

\* one iteration of while(1): fresh are the bytes that follow the ones read
\* so far, junk and outcome what a read before the output buffer does
R_decode_token(fresh, junk, outcome) ==
    /\ dpc = "running"
    /\ LET reload == getidbyte = 0
           id == IF reload THEN Mem(input + 1, fresh) ELSE idbyte
           at == IF reload THEN input + 1 ELSE input
           b1 == Mem(at + 1, fresh)
           b2 == Mem(at + 2, fresh)
           isRef == id % 2 = 1
           used == IF isRef THEN at + 2 ELSE at + 1
           src == Len(output) - Pos(b1, b2)
           len == BackRefLen(b2)
       IN  /\ used - Len(lumpStart) <= MaxLump
           /\ lump' = IF used > Len(lump)
                      THEN lump \o SubSeq(fresh, 1, used - Len(lump))
                      ELSE lump
           /\ input' = used
           /\ getidbyte' = NextGetIdByte(getidbyte)
           /\ idRead' = IF reload THEN id ELSE idRead
           /\ tokens' = tokens + 1
           /\ IF isRef
              THEN IF len = 1
                   THEN dpc' = "done" /\ output' = output /\ idbyte' = id
                   ELSE IF src < 1 /\ outcome = "trap"
                        THEN dpc' = "crashed" /\ output' = output /\ idbyte' = id
                        ELSE /\ output' = CopyPixels(output, src, len, junk)
                             /\ idbyte' = id \div 2
                             /\ dpc' = "running"
              ELSE /\ output' = Append(output, vgatojag(b1))
                   /\ idbyte' = id \div 2
                   /\ dpc' = "running"
    /\ UNCHANGED lumpStart
    /\ UNCHANGED <<progVars, obsVars, menuVars, spriteVars>>

----------------------------------------------------------------------------
\* Specifications

\* the game may enqueue while the frame holds fewer than n commands
QueueRoom(n) == Len(frameLog) < n

\* the resource cache: factory, dirty flag and sync, painting, clearing,
\* lookup, rendering and the resolution change
Next ==
    \/ GL_InitFramebufferTextures
    \/ \E name \in Names, g \in Graphics, restype \in ResTypeInputs :
         GL_NewTextureResource(name, SrcData(g[1]), g[2], g[3], restype, g[4])
    \/ \E r \in Held(Painted) : GL_UpdateTextureResource(r)
    \/ \E r \in Held(Painted), i \in 0..(MaxPix - 1), c \in Colors :
         GL_GetTextureResourceStore(r, i, c)
    \/ \E r \in Held(Painted) : GL_TextureResourceSetUpdated(r)
    \/ \E r \in Held(Painted) \cup {NULL}, c \in Colors : GL_ClearTextureResource(r, c)
    \/ \E name \in Names : GL_CheckForTextureResource(name)
    \/ \E which \in FbWhichInputs : GL_TextureResourceGetFramebuffer(which)
    \/ GL_RenderFrame
    \/ VALLOCATION_graphics

Spec == Init /\ [][Next]_vars

\* painting and enqueueing: the game paints resources, marks them dirty or
\* not, syncs them, enqueues up to MaxFrameCmds commands a frame and renders,
\* and the resolution changes
NextSync ==
    \/ GL_InitFramebufferTextures
    \/ \E r \in Held(Painted), i \in 0..(MaxPix - 1), c \in Colors :
         GL_GetTextureResourceStore(r, i, c)
    \/ \E r \in Held(Painted) : GL_TextureResourceSetUpdated(r)
    \/ \E r \in Held(Painted) : GL_UpdateTextureResource(r)
    \/ VALLOCATION_graphics
    \/ \E r \in Handles \cup {NULL}, rc \in Rects1 :
         QueueRoom(MaxFrameCmds) /\ GL_AddDrawCommand(r, rc[1], rc[2], rc[3], rc[4])
    \/ \E r \in Handles \cup {NULL}, rc \in Rects1 :
         QueueRoom(MaxFrameCmds) /\ GL_AddLateDrawCommand(r, rc[1], rc[2], rc[3], rc[4])
    \/ GL_RenderFrame

SpecSync == Init /\ [][NextSync]_vars

\* the game is writing to the store of resource r: its last call was a write
\* to it
Writing(r) == op = "GL_GetTextureResourceStore" /\ ret = r

\* no write is waiting for its mark-dirty
Marked == op # "GL_GetTextureResourceStore"

\* the cache used with discipline: the game follows its writes to a store
\* with GL_TextureResourceSetUpdated of that resource before it makes any
\* other call
NextMarked ==
    \/ GL_InitFramebufferTextures
    \/ \E g \in Graphics :
         Marked /\ GL_NewTextureResource("gfx", SrcData(g[1]), g[2], g[3], "RES_8BIT", g[4])
    \/ \E r \in Held(Painted), i \in 0..(MaxPix - 1), c \in Colors :
         (Marked \/ Writing(r)) /\ GL_GetTextureResourceStore(r, i, c)
    \/ \E r \in Handles :
         (Marked \/ Writing(r)) /\ GL_TextureResourceSetUpdated(r)
    \/ \E r \in Handles : Marked /\ GL_UpdateTextureResource(r)
    \/ \E r \in Held(Painted), c \in Colors : Marked /\ GL_ClearTextureResource(r, c)
    \/ \E r \in Handles, rc \in Rects1 :
         Marked /\ QueueRoom(MaxFrameCmds) /\ GL_AddDrawCommand(r, rc[1], rc[2], rc[3], rc[4])
    \/ Marked /\ GL_RenderFrame
    \/ Marked /\ VALLOCATION_graphics

SpecMarked == Init /\ [][NextMarked]_vars

\* the main menu: the game enters it with start settings in range, any
\* play mode and any movecount an earlier menu left, and calls M_Ticker
\* every tic until it returns 1
InitMenu ==
    /\ pc = "startup"
    /\ resources = <<>>
    /\ graphics = <<>>
    /\ framebuffer160 = NULL
    /\ framebuffer320 = NULL
    /\ drawCommands = <<>>
    /\ lateDrawCommands = <<>>
    /\ palette8 \in Palettes
    /\ CRYToRGB \in LUTs
    /\ rbState = rbInitial
    /\ op = "start"
    /\ ret = NULL
    /\ uploads = <<>>
    /\ executed = <<>>
    /\ flushed = <<>>
    /\ frameLog = <<>>
    /\ calls = <<>>
    /\ converted = FALSE
    /\ request = <<>>
    /\ refired = FALSE
    /\ fatalMsg = ""
    /\ mpc = "off"
    /\ cursorframe = 0 /\ cursorcount = 0
    /\ movecount \in 0..6
    /\ maxlevel \in 1..MaxLevel
    /\ playermap = 0
    /\ playerskill = 0
    /\ currentplaymode \in 0..(NUMMODES - 1)
    /\ cursorpos = gamemode
    /\ startmap \in StartMaps(maxlevel)
    /\ startskill \in StartSkills
    /\ starttype = single
    /\ ticbuttons = {} /\ mret = 0
    /\ entered = Entry
    /\ SpritesAtStart
    /\ DecodeAtStart

NextMenu ==
    \/ M_Start
    \/ \E buttons \in Buttons, t \in Ticons : M_Ticker(buttons, t)

SpecMenu == InitMenu /\ [][NextMenu]_vars

\* the draw lists: the game marks resources dirty, enqueues up to MaxQueue
\* commands a frame and renders
NextQueue ==
    \/ GL_InitFramebufferTextures
    \/ \E r \in Handles : GL_TextureResourceSetUpdated(r)
    \/ \E r \in Handles \cup {NULL}, rc \in Rects :
         QueueRoom(MaxQueue) /\ GL_AddDrawCommand(r, rc[1], rc[2], rc[3], rc[4])
    \/ \E r \in Handles \cup {NULL}, rc \in Rects :
         QueueRoom(MaxQueue) /\ GL_AddLateDrawCommand(r, rc[1], rc[2], rc[3], rc[4])
    \/ \E which \in FbWhichInputs : QueueRoom(MaxQueue) /\ GL_AddFramebuffer(which)
    \/ GL_RenderFrame

SpecQueue == Init /\ [][NextQueue]_vars

\* the converters: the game starts with any palette and lookup table and,
\* right after startup, makes one factory call for a graphic of either
\* indexed encoding
InitConv ==
    /\ pc = "startup"
    /\ resources = <<>>
    /\ graphics = <<>>
    /\ framebuffer160 = NULL
    /\ framebuffer320 = NULL
    /\ drawCommands = <<>>
    /\ lateDrawCommands = <<>>
    /\ palette8 \in PalettesConv
    /\ CRYToRGB \in LUTsConv
    /\ rbState = rbInitial
    /\ MenuAtStart
    /\ SpritesAtStart
    /\ DecodeAtStart
    /\ op = "start"
    /\ ret = NULL
    /\ uploads = <<>>
    /\ executed = <<>>
    /\ flushed = <<>>
    /\ frameLog = <<>>
    /\ calls = <<>>
    /\ converted = FALSE
    /\ request = <<>>
    /\ refired = FALSE
    /\ fatalMsg = ""

NextConv ==
    \/ GL_InitFramebufferTextures
    \/ \E data \in ConvSources, sz \in ConvSizes :
         /\ op = "GL_InitFramebufferTextures"
         /\ GL_NewTextureResource("gfx", data, sz[1], sz[2], "RES_8BIT", 0)
    \/ \E data \in ConvSources, sz \in ConvSizes, palshift \in PalShifts :
         /\ op = "GL_InitFramebufferTextures"
         /\ GL_NewTextureResource("gfx", data, sz[1], sz[2], "RES_8BIT_PACKED", palshift)

SpecConv == InitConv /\ [][NextConv]_vars

\* the framebuffers: the game paints the playfield framebuffer and uses the
\* selector operations and the per-resource operations on both framebuffers
NextFb ==
    \/ GL_InitFramebufferTextures
    \/ \E r \in Held(Painted), i \in 0..(MaxPix - 1), c \in Colors :
         GL_GetTextureResourceStore(r, i, c)
    \/ \E r \in Handles : GL_TextureResourceSetUpdated(r)
    \/ \E r \in Handles : GL_UpdateTextureResource(r)
    \/ \E r \in Handles \cup {NULL}, c \in Colors : GL_ClearTextureResource(r, c)
    \/ \E which \in FbWhichInputs : GL_GetFramebuffer(which)
    \/ \E which \in FbWhichInputs : GL_TextureResourceGetFramebuffer(which)
    \/ \E which \in FbWhichInputs : GL_UpdateFramebuffer(which)
    \/ \E which \in FbWhichInputs, c \in Colors : GL_ClearFramebuffer(which, c)
    \/ \E which \in FbWhichInputs : GL_FramebufferSetUpdated(which)
    \/ \E which \in FbWhichInputs : QueueRoom(MaxFrameCmds) /\ GL_AddFramebuffer(which)
    \/ GL_RenderFrame

SpecFb == Init /\ [][NextFb]_vars

\* one call of R_Sprites on up to MaxMobj mobj sprites followed by up to
\* MaxPsprites psprites; the call runs on until it returns or traps
InitSprites ==
    /\ pc = "startup"
    /\ resources = <<>>
    /\ graphics = <<>>
    /\ framebuffer160 = NULL
    /\ framebuffer320 = NULL
    /\ drawCommands = <<>>
    /\ lateDrawCommands = <<>>
    /\ palette8 \in Palettes
    /\ CRYToRGB \in LUTs
    /\ rbState = rbInitial
    /\ MenuAtStart
    /\ DecodeAtStart
    /\ op = "start"
    /\ ret = NULL
    /\ uploads = <<>>
    /\ executed = <<>>
    /\ flushed = <<>>
    /\ frameLog = <<>>
    /\ calls = <<>>
    /\ converted = FALSE
    /\ request = <<>>
    /\ refired = FALSE
    /\ fatalMsg = ""
    /\ \E mobjs \in SeqsUpTo(MobjSprites, MaxMobj),
          psprs \in SeqsUpTo(Psprites, MaxPsprites) :
          /\ vissprites = mobjs \o psprs
          /\ lastsprite_p = Len(mobjs) + 1
          /\ vissprite_p = Len(mobjs) + Len(psprs) + 1
    /\ onEntry = vissprites
    /\ spc = "entry"
    /\ sprI = 0 /\ mobjCount = 0 /\ best = NULL
    /\ spropening = [x \in 0..MaxX |-> 0]
    /\ spriteCalls = <<>> /\ picked = <<>>

NextSprites ==
    \/ R_Sprites_entry
    \/ \E outcome \in UBOutcomes, garbage \in {NULL, 1} :
         R_Sprites_mobj(outcome, garbage)
    \/ R_Sprites_psprite

SpecSprites == InitSprites /\ [][NextSprites]_vars /\ WF_vars(NextSprites)

\* one call of R_decode on compressed data of which it reads at most
\* MaxLump bytes beyond the start it is given
InitDecode ==
    /\ pc = "startup"
    /\ resources = <<>>
    /\ graphics = <<>>
    /\ framebuffer160 = NULL
    /\ framebuffer320 = NULL
    /\ drawCommands = <<>>
    /\ lateDrawCommands = <<>>
    /\ palette8 \in Palettes
    /\ CRYToRGB \in LUTs
    /\ rbState = rbInitial
    /\ MenuAtStart
    /\ SpritesAtStart
    /\ op = "start"
    /\ ret = NULL
    /\ uploads = <<>>
    /\ executed = <<>>
    /\ flushed = <<>>
    /\ frameLog = <<>>
    /\ calls = <<>>
    /\ converted = FALSE
    /\ request = <<>>
    /\ refired = FALSE
    /\ fatalMsg = ""
    /\ dpc = "running"
    /\ lumpStart \in LumpStarts
    /\ lump = lumpStart
    /\ input = 0 /\ output = <<>>
    /\ getidbyte = 0 /\ idbyte = 0
    /\ tokens = 0 /\ idRead = 0

NextDecode ==
    \E fresh \in [1..3 -> DecodeBytes], junk \in [1..3 -> JunkPixels],
       outcome \in UBOutcomes : R_decode_token(fresh, junk, outcome)

SpecDecode == InitDecode /\ [][NextDecode]_vars

----------------------------------------------------------------------------
\* Properties

\* the command an enqueue call asks for
CmdOf(e) == [res |-> e.res, x |-> e.x, y |-> e.y, w |-> e.w, h |-> e.h]

\* the commands a log of enqueue calls asks for, in call order
AllCalls(log) == [i \in DOMAIN log |-> CmdOf(log[i])]
NormalCalls(log) == AllCalls(SelectSeq(log, LAMBDA e : ~e.late))
LateCalls(log) == AllCalls(SelectSeq(log, LAMBDA e : e.late))

\* how often c occurs in a sequence
Count(seq, c) == Cardinality({i \in DOMAIN seq : seq[i] = c})

Dirty(r) == resources[r].m_needUpdate
Cpu(r) == resources[r].m_data
Gpu(r) == resources[r].m_tex.pixels

EnqueueOps == {"GL_AddDrawCommand", "GL_AddLateDrawCommand"}
NullEnqueueOps == {"GL_AddDrawCommand(NULL)", "GL_AddLateDrawCommand(NULL)"}

\* C1: GL_RenderFrame draws the commands of the frame in this order: the
\* normal commands in the order of their enqueue calls, then the late
\* commands in the order of theirs, whatever the interleaving of the calls.
C1_DrawOrder ==
    op = "GL_RenderFrame" => executed = NormalCalls(flushed) \o LateCalls(flushed)

\* a frame was rendered in which a late command was enqueued first and a
\* different normal command second, and the normal one was drawn first
C1_Witness ==
    /\ op = "GL_RenderFrame"
    /\ Len(flushed) >= 2
    /\ flushed[1].late /\ ~flushed[2].late
    /\ CmdOf(flushed[1]) # CmdOf(flushed[2])
    /\ executed[1] = CmdOf(flushed[2])

\* C2: a call of GL_NewTextureResource that returns a resource leaves it
\* registered under the name; a call with a name that is registered returns
\* the registered handle whatever its other arguments are, runs no
\* conversion, makes no upload and changes no resource and not the hive.
C2_CacheIdentity ==
    [][(op' = "GL_NewTextureResource" /\ pc' = "running") =>
         LET n == calls'[1].name
             h == findResourceType(resources, graphics, n)
         IN  /\ ret' # NULL => findResourceType(resources', graphics', n) = ret'
             /\ h # NULL =>
                  /\ ret' = h
                  /\ ~converted'
                  /\ uploads' = <<>>
                  /\ resources' = resources
                  /\ graphics' = graphics]_vars

\* the factory returned a registered resource that is dirty and painted
\* since its last upload, without converting or uploading
C2_Witness ==
    /\ op = "GL_NewTextureResource"
    /\ ret # NULL
    /\ uploads = <<>> /\ ~converted
    /\ resources[ret].tag = "gfx"
    /\ Dirty(ret) /\ Cpu(ret) # Gpu(ret)

\* C3: GL_TextureResourceSetUpdated(r) leaves r dirty; GL_UpdateTextureResource(r)
\* leaves r not dirty, and makes exactly one upload, of r, when r was dirty,
\* and no upload and no change of the program state when r was not.
C3_DirtySync ==
    [][\A r \in Handles :
         /\ GL_TextureResourceSetUpdated(r) => resources'[r].m_needUpdate
         /\ GL_UpdateTextureResource(r) =>
              /\ ~resources'[r].m_needUpdate
              /\ Dirty(r) => /\ uploads' = <<Uploaded(r, "update")>>
                             /\ resources'[r].m_tex.pixels = Cpu(r)
              /\ ~Dirty(r) => uploads' = <<>> /\ UNCHANGED progVars]_vars

\* a sync has uploaded a dirty resource whose buffer was painted
C3_Witness ==
    /\ op = "GL_UpdateTextureResource"
    /\ \E r \in Handles :
         /\ uploads = <<Uploaded(r, "update")>>
         /\ ~Dirty(r)
         /\ \E i \in DOMAIN Cpu(r) : Cpu(r)[i] # 0

\* C4: after GL_RenderFrame both draw lists are empty, and a frame with no
\* enqueue call draws nothing.
C4_QueueDrain ==
    op = "GL_RenderFrame" =>
        /\ drawCommands = <<>>
        /\ lateDrawCommands = <<>>
        /\ flushed = <<>> => executed = <<>>

\* a frame with a normal and a late command was rendered
C4_Witness ==
    /\ op = "GL_RenderFrame"
    /\ \E i, j \in DOMAIN flushed : flushed[i].late /\ ~flushed[j].late
    /\ drawCommands = <<>> /\ lateDrawCommands = <<>>

\* C5: the draw lists hold exactly the commands asked for since the last
\* GL_RenderFrame, with the arguments of the calls, and GL_RenderFrame draws
\* each command of its frame exactly as often as it was asked for, and no
\* other command.
C5_ExactlyOnce ==
    /\ drawCommands = NormalCalls(frameLog)
    /\ lateDrawCommands = LateCalls(frameLog)
    /\ op = "GL_RenderFrame" =>
         /\ frameLog = <<>>
         /\ \A c \in Range(executed) \cup Range(AllCalls(flushed)) :
              Count(executed, c) = Count(AllCalls(flushed), c)

\* a frame was rendered in which the same resource and rectangle were
\* enqueued once as a normal and once as a late command
C5_Witness ==
    /\ op = "GL_RenderFrame"
    /\ \E i, j \in DOMAIN flushed :
         /\ flushed[i].late /\ ~flushed[j].late
         /\ CmdOf(flushed[i]) = CmdOf(flushed[j])
         /\ flushed[i].x # flushed[i].y
         /\ Count(executed, CmdOf(flushed[i])) = 2

\* C6 as claimed: after GL_AddDrawCommand or GL_AddLateDrawCommand with a
\* resource r, r is not dirty and its GPU contents equal its CPU buffer, with
\* exactly one upload when r was dirty and none when it was not.
C6_Original ==
    [][\A r \in Handles, rc \in Rects1 :
         (\/ GL_AddDrawCommand(r, rc[1], rc[2], rc[3], rc[4])
          \/ GL_AddLateDrawCommand(r, rc[1], rc[2], rc[3], rc[4])) =>
              /\ ~resources'[r].m_needUpdate
              /\ resources'[r].m_tex.pixels = resources'[r].m_data
              /\ Dirty(r) => uploads' = <<Uploaded(r, "update")>>
              /\ ~Dirty(r) => uploads' = <<>>]_vars

\* C6 (amended): after GL_AddDrawCommand or GL_AddLateDrawCommand with a
\* resource r, r is not dirty; when r was dirty exactly one upload, of r, is
\* made and r's GPU contents equal its CPU buffer; when r was not dirty no
\* upload is made and r is unchanged, so that its GPU contents equal its CPU
\* buffer only if they did before.
C6_EnqueueSyncs ==
    [][\A r \in Handles, rc \in Rects1 :
         (\/ GL_AddDrawCommand(r, rc[1], rc[2], rc[3], rc[4])
          \/ GL_AddLateDrawCommand(r, rc[1], rc[2], rc[3], rc[4])) =>
              /\ ~resources'[r].m_needUpdate
              /\ Dirty(r) => /\ uploads' = <<Uploaded(r, "update")>>
                             /\ resources'[r].m_tex.pixels = resources'[r].m_data
              /\ ~Dirty(r) => /\ uploads' = <<>>
                              /\ resources'[r] = resources[r]]_vars

\* a resource painted and not marked dirty was enqueued: no upload was made
\* and its GPU contents differ from its CPU buffer
C6_Witness ==
    /\ op \in EnqueueOps
    /\ frameLog # <<>>
    /\ LET r == frameLog[Len(frameLog)].res
       IN  ~Dirty(r) /\ uploads = <<>> /\ Gpu(r) # Cpu(r)

\* C7: the resolution change handler leaves every registered resource's CPU
\* buffer as it was and its GPU contents equal to that buffer, and a
\* GL_UpdateTextureResource(r) right after the handler leaves r's CPU buffer
\* as it was and r's GPU contents equal to it, dirty or not.
C7_InvalidationRoundTrip ==
    [][/\ VALLOCATION_graphics =>
            \A r \in Range(graphics) :
                /\ resources'[r].m_data = Cpu(r)
                /\ resources'[r].m_tex.pixels = Cpu(r)
       /\ \A r \in Handles :
            (op = "VALLOCATION" /\ GL_UpdateTextureResource(r)) =>
                /\ resources'[r].m_data = Cpu(r)
                /\ resources'[r].m_tex.pixels = Cpu(r)]_vars

\* the handler ran with a registered resource that is dirty and whose
\* painted buffer had not been uploaded
C7_Witness ==
    /\ op = "VALLOCATION"
    /\ \E r \in Range(graphics) :
         /\ Dirty(r)
         /\ \E i \in DOMAIN Cpu(r) : Cpu(r)[i] # 0
         /\ Gpu(r) = Cpu(r)

\* C8: GL_AddDrawCommand and GL_AddLateDrawCommand with a null resource leave
\* both draw lists, every resource, the hive and the framebuffers as they
\* were, and the process running.
C8_NullEnqueueIgnored ==
    [][op' \in NullEnqueueOps =>
         UNCHANGED <<pc, resources, graphics, framebuffer160, framebuffer320,
                     drawCommands, lateDrawCommands, frameLog, fatalMsg>>]_vars

\* an enqueue call with a null resource returned while a command was
\* queued and a resource was dirty
C8_Witness ==
    /\ op \in NullEnqueueOps
    /\ pc = "running"
    /\ drawCommands # <<>>
    /\ \E r \in Handles : Dirty(r)

\* C9: a call of GL_NewTextureResource with a name that is not registered in
\* which an allocation fails returns null and leaves the resources and the
\* hive as they were, the name still not registered.
C9_FailureReturnsNull ==
    [][(/\ op' = "GL_NewTextureResource"
        /\ calls'[1].failed # ""
        /\ findResourceType(resources, graphics, calls'[1].name) = NULL) =>
            /\ pc' = "running"
            /\ ret' = NULL
            /\ resources' = resources
            /\ graphics' = graphics
            /\ findResourceType(resources', graphics', calls'[1].name) = NULL]_vars

\* C10: when the factory returns null for a framebuffer in
\* GL_InitFramebufferTextures, hal_platform.fatalError is given that
\* framebuffer's message and no operation follows, GL_RenderFrame least of
\* all; after a null for the first framebuffer the factory is not called for
\* the second.
C10_StartupFatality ==
    /\ (pc \in {"running", "fatal"} /\ framebuffer160 = NULL) =>
         /\ pc = "fatal" /\ fatalMsg = Fatal160
         /\ Len(calls) = 1 /\ calls[1].name = "framebuffer"
         /\ \A h \in Handles : resources[h].tag # "framebuffer320"
    /\ (pc \in {"running", "fatal"} /\ framebuffer160 # NULL /\ framebuffer320 = NULL) =>
         pc = "fatal" /\ fatalMsg = Fatal320
    /\ pc = "fatal" => op = "GL_InitFramebufferTextures" /\ executed = <<>>
    /\ fatalMsg # "" => pc = "fatal"

\* the first framebuffer's creation failed and the process ended with its message
C10_Witness ==
    /\ pc = "fatal"
    /\ fatalMsg = Fatal160
    /\ framebuffer160 = NULL
    /\ calls = <<Called("framebuffer", "object")>>

\* the last operation was a factory call that created a resource of this encoding
CreatedAs(restype) ==
    /\ op = "GL_NewTextureResource"
    /\ ret # NULL
    /\ uploads # <<>>
    /\ request.restype = restype

\* the 4-bit index of pixel q in the packed source data: high nibble first
NibbleOf(data, q) ==
    IF q % 2 = 0 THEN (data[q \div 2] \div 16) % 16 ELSE data[q \div 2] % 16

\* the index the packed converter holds in a byte: the nibble plus twice the shift
BiasedIndex(palshift, nib) == (2 * palshift + nib) % 256

\* the pixels the loop of the packed converter writes: the first 2 * (w*h/2)
PackedWritten(w, h) == {q \in 0..(Tracked(w, h) - 1) : q < 2 * ((w * h) \div 2)}

\* C11 as claimed: in the buffer the packed converter makes, every pixel
\* whose source nibble is 0 is 0, for every palette shift, palette and
\* lookup table.
C11_Original ==
    CreatedAs("RES_8BIT_PACKED") =>
        \A q \in PackedWritten(request.width, request.height) :
            NibbleOf(request.data, q) = 0 => Cpu(ret)[q] = 0

\* C11 (amended): in the buffer the packed converter makes, a pixel the
\* converter writes is 0 when its biased index (2 * palshift + nibble) mod 256
\* is 0, whatever the palette and the lookup table hold, and
\* CRYToRGB[palette8[biased index]] otherwise; so a nibble equal to 0 gives 0
\* when 2 * palshift mod 256 is 0, and CRYToRGB[palette8[2 * palshift mod 256]]
\* with any other palette shift.
C11_PackedTransparent ==
    CreatedAs("RES_8BIT_PACKED") =>
        \A q \in PackedWritten(request.width, request.height) :
            LET nib == NibbleOf(request.data, q)
                pix == BiasedIndex(request.palshift, nib)
            IN  /\ pix = 0 => Cpu(ret)[q] = 0
                /\ pix # 0 => Cpu(ret)[q] = CRYToRGB[PaletteEntry(palette8, pix)]
                /\ (nib = 0 /\ (2 * request.palshift) % 256 = 0) => Cpu(ret)[q] = 0

\* a packed graphic whose first nibble is 0 and whose second is not was
\* converted with palette shift 1: its first pixel is
\* CRYToRGB[palette8[2]], which is not 0
C11_Witness ==
    /\ CreatedAs("RES_8BIT_PACKED")
    /\ request.width * request.height = 2
    /\ request.palshift = 1
    /\ NibbleOf(request.data, 0) = 0
    /\ NibbleOf(request.data, 1) # 0
    /\ Cpu(ret)[0] = CRYToRGB[PaletteEntry(palette8, 2)]
    /\ Cpu(ret)[0] # 0

\* C12: in the buffer the 8-bit converter makes, pixel p is 0 when source
\* byte p is 0, whatever the palette and the lookup table hold, and
\* CRYToRGB[palette8[source byte p]] otherwise, for every p < w * h.
C12_EightBit ==
    CreatedAs("RES_8BIT") =>
        /\ DOMAIN Cpu(ret) = 0..(Tracked(request.width, request.height) - 1)
        /\ \A p \in DOMAIN Cpu(ret) :
             Cpu(ret)[p] = IF request.data[p] = 0 THEN 0
                           ELSE CRYToRGB[PaletteEntry(palette8, request.data[p])]

\* an 8-bit graphic with a zero byte and a non-zero byte was converted with a
\* lookup table that holds no 0: the first pixel is 0, the second is not
C12_Witness ==
    /\ CreatedAs("RES_8BIT")
    /\ CRYToRGB[0] = 1 /\ CRYToRGB[1] = 1
    /\ request.data[0] = 0 /\ request.data[1] # 0
    /\ request.width * request.height >= 2
    /\ Cpu(ret)[0] = 0 /\ Cpu(ret)[1] = 1

\* the names of the resources a hive holds, in hive order
TagsOf(rs, hive) == [i \in DOMAIN hive |-> rs[hive[i]].tag]

\* no name occurs twice in a sequence of names
NoDuplicate(tags) == \A i, j \in DOMAIN tags : tags[i] = tags[j] => i = j

C14_CheckNeverCreates ==
    [][\A n \in Names :
         GL_CheckForTextureResource(n) =>
            /\ ret' # NULL => (ret' \in Range(graphics) /\ resources[ret'].tag = n)
            /\ ret' = NULL => \A h \in Range(graphics) : resources[h].tag # n
            /\ uploads' = <<>>
            /\ UNCHANGED progVars]_vars

\* a lookup of a name that is not registered returned null and created
\* nothing, with a resource dirty
C14_Witness ==
    /\ op = "GL_CheckForTextureResource"
    /\ ret = NULL
    /\ TagsOf(resources, graphics) = <<"framebuffer", "framebuffer320">>
    /\ Len(resources) = 2
    /\ \E r \in Handles : Dirty(r) /\ Cpu(r) # Gpu(r)

\* C15: GL_NewTextureResource with a name that is not registered and a
\* selector that is none of RES_FRAMEBUFFER, RES_8BIT, RES_8BIT_PACKED
\* returns null, makes no resource and no upload, runs no converter and
\* leaves the hive as it was.
C15_UnknownEncoding ==
    [][\A name \in Names, g \in Graphics, restype \in ResTypeInputs \ ResTypes :
         (/\ findResourceType(resources, graphics, name) = NULL
          /\ GL_NewTextureResource(name, SrcData(g[1]), g[2], g[3], restype, g[4])) =>
            /\ pc' = "running"
            /\ ret' = NULL
            /\ uploads' = <<>>
            /\ ~converted'
            /\ resources' = resources
            /\ graphics' = graphics]_vars

\* the factory was called with an unknown selector and a name that is not
\* registered, and returned null with the hive as it was
C15_Witness ==
    /\ op = "GL_NewTextureResource"
    /\ pc = "running"
    /\ ret = NULL
    /\ request.restype \notin ResTypes
    /\ findResourceType(resources, graphics, request.name) = NULL
    /\ Len(resources) = 2

\* the step changes nothing but the TextureResource objects
OnlyResources ==
    UNCHANGED <<pc, graphics, framebuffer160, framebuffer320, drawCommands,
                lateDrawCommands, frameLog>>

\* the step changes no resource but r
OnlyResource(r) == \A q \in Handles : q # r => resources'[q] = resources[q]

\* C16: with a framebuffer selector that is neither FB_160 nor FB_320,
\* GL_GetFramebuffer and GL_TextureResourceGetFramebuffer return null, and
\* GL_UpdateFramebuffer, GL_ClearFramebuffer, GL_FramebufferSetUpdated and
\* GL_AddFramebuffer make no upload and change no resource, neither draw
\* list and nothing else of the program state.
C16_UnknownSelector ==
    [][\A which \in FbWhichInputs \ FbWhich :
         /\ (\/ GL_GetFramebuffer(which)
             \/ GL_TextureResourceGetFramebuffer(which)) =>
                /\ ret' = NULL
                /\ UNCHANGED progVars
         /\ (\/ GL_UpdateFramebuffer(which)
             \/ \E c \in Colors : GL_ClearFramebuffer(which, c)
             \/ GL_FramebufferSetUpdated(which)
             \/ GL_AddFramebuffer(which)) =>
                /\ uploads' = <<>>
                /\ UNCHANGED <<progVars, frameLog>>]_vars

\* GL_AddFramebuffer returned having enqueued nothing in an empty frame,
\* which only a call with an unknown selector does, while a framebuffer was
\* painted and dirty
C16_Witness ==
    /\ op = "GL_AddFramebuffer"
    /\ pc = "running"
    /\ frameLog = <<>> /\ drawCommands = <<>> /\ lateDrawCommands = <<>>
    /\ framebuffer160 # NULL /\ framebuffer320 # NULL
    /\ Dirty(framebuffer160) /\ Cpu(framebuffer160) # Gpu(framebuffer160)

\* what a clear of resource r to colour c does
ClearedTo(r, c) ==
    /\ resources'[r].m_data =
         [i \in 0..(Tracked(resources[r].m_width, resources[r].m_height) - 1) |-> c]
    /\ resources'[r].m_needUpdate
    /\ resources'[r].m_tex = resources[r].m_tex
    /\ uploads' = <<>>
    /\ OnlyResource(r)
    /\ OnlyResources

\* C17: GL_ClearTextureResource(r, c) with a resource, and GL_ClearFramebuffer
\* with the selector of a framebuffer, set every pixel of the CPU buffer to
\* c and the dirty flag, make no upload and leave the GPU contents and
\* everything else as they were; GL_ClearTextureResource with a null
\* resource changes nothing.
C17_Clear ==
    [][/\ \A r \in Handles, c \in Colors :
            GL_ClearTextureResource(r, c) => ClearedTo(r, c)
       /\ \A c \in Colors :
            GL_ClearTextureResource(NULL, c) => (uploads' = <<>> /\ UNCHANGED progVars)
       /\ \A which \in FbWhich, c \in Colors :
            GL_ClearFramebuffer(which, c) => ClearedTo(FramebufferOf(which), c)]_vars

\* a resource whose GPU contents hold two colours was cleared to colour 1:
\* every pixel of its CPU buffer is 1, it is dirty, the GPU contents are as
\* they were
C17_Witness ==
    /\ op = "GL_ClearTextureResource"
    /\ \E r \in Handles :
         /\ Dirty(r)
         /\ \A i \in DOMAIN Cpu(r) : Cpu(r)[i] = 1
         /\ \E i, j \in DOMAIN Gpu(r) : Gpu(r)[i] # Gpu(r)[j]

\* what marking resource r dirty does
MarkedDirty(r) ==
    /\ resources' = [resources EXCEPT ![r].m_needUpdate = TRUE]
    /\ uploads' = <<>>
    /\ OnlyResources

\* C18: GL_TextureResourceSetUpdated(r), and GL_FramebufferSetUpdated with
\* the selector of a framebuffer, set the dirty flag of the resource and
\* nothing else: no upload, the GPU contents, the CPU buffer and the
\* dimensions of every resource, the hive and both draw lists as they were.
C18_MarkDirtyOnly ==
    [][/\ \A r \in Handles :
            GL_TextureResourceSetUpdated(r) => MarkedDirty(r)
       /\ \A which \in FbWhich :
            GL_FramebufferSetUpdated(which) => MarkedDirty(FramebufferOf(which))]_vars

\* a resource was marked and is the only dirty one, so it is the one that
\* was marked; it was painted before and its GPU contents still differ from
\* its CPU buffer, with a command in the draw list
C18_Witness ==
    /\ op = "GL_TextureResourceSetUpdated"
    /\ \E r \in Handles :
         /\ Dirty(r) /\ Cpu(r) # Gpu(r)
         /\ \A q \in Handles : q # r => ~Dirty(q)
    /\ drawCommands # <<>>

\* the uploads of resource r among a list of uploads
UploadsOf(u, r) == {i \in DOMAIN u : u[i].res = r}

\* C19: each firing of the resolution change handler visits every resource
\* registered in the hive at that time exactly once, both framebuffers
\* included: the handler makes one generate upload for each hive entry and no
\* other upload, and every visited resource has a texture that was abandoned
\* and generated again, allocated at the resource's size and holding its CPU
\* buffer, with its CPU buffer, dirty flag and the hive unchanged.
C19_VisitsEachOnce ==
    [][op' = "VALLOCATION" =>
         /\ graphics' = graphics
         /\ Len(uploads') = Len(graphics)
         /\ {framebuffer160, framebuffer320} \subseteq Range(graphics)
         /\ \A r \in Range(graphics) :
              /\ Cardinality(UploadsOf(uploads', r)) = 1
              /\ Count(uploads', Uploaded(r, "generate")) = 1
              /\ resources'[r].m_tex =
                    rbUpload(rbInit(abandonTexture(resources[r].m_tex),
                                    resources[r].m_width, resources[r].m_height),
                             Cpu(r))
              /\ resources'[r].m_data = Cpu(r)
              /\ resources'[r].m_needUpdate = Dirty(r)]_vars

\* the handler ran with both framebuffers and a graphic registered and
\* made three uploads, the last of them of the graphic
C19_Witness ==
    /\ op = "VALLOCATION"
    /\ Len(graphics) = 3
    /\ Len(uploads) = 3
    /\ resources[uploads[3].res].tag = "gfx"
    /\ {framebuffer160, framebuffer320} = {uploads[1].res, uploads[2].res}

\* the calls that sync resource r: GL_UpdateTextureResource and the two
\* enqueue calls
Syncs(r) ==
    \/ GL_UpdateTextureResource(r)
    \/ \E rc \in Rects1 : GL_AddDrawCommand(r, rc[1], rc[2], rc[3], rc[4])
    \/ \E rc \in Rects1 : GL_AddLateDrawCommand(r, rc[1], rc[2], rc[3], rc[4])

\* C20 as claimed: over paint, mark-dirty, sync, enqueue, render-frame and
\* invalidation steps, no upload is made for an existing resource whose CPU
\* buffer equals what was uploaded last.
C20_Original ==
    [][\A r \in Handles : UploadsOf(uploads', r) # {} => Cpu(r) # Gpu(r)]_vars

\* C20 (amended): uploads follow the dirty flag and the resolution change,
\* not the buffer. In one step a resource is uploaded at most once, and it is
\* uploaded exactly when the step is the resolution change handler and the
\* resource is registered, or the step syncs the resource
\* (GL_UpdateTextureResource or an enqueue) and its dirty flag is set; the
\* upload leaves the GPU contents equal to the CPU buffer. The flag is set
\* only by GL_TextureResourceSetUpdated and cleared only by a sync's upload;
\* writing the buffer neither sets the flag nor uploads, and GL_RenderFrame
\* uploads nothing.
C20_UploadsFollowFlag ==
    [][\A r \in Handles :
         LET n == Cardinality(UploadsOf(uploads', r))
         IN  /\ n <= 1
             /\ n = 1 <=> \/ op' = "VALLOCATION" /\ r \in Range(graphics)
                          \/ Dirty(r) /\ Syncs(r)
             /\ n = 1 => resources'[r].m_tex.pixels = Cpu(r)
             /\ (~Dirty(r) /\ resources'[r].m_needUpdate) =>
                    op' = "GL_TextureResourceSetUpdated"
             /\ (Dirty(r) /\ ~resources'[r].m_needUpdate) =>
                    uploads' = <<Uploaded(r, "update")>>
             /\ op' \in {"GL_GetTextureResourceStore", "GL_RenderFrame"} =>
                    uploads' = <<>>]_vars

\* a resource whose buffer is as it was uploaded at creation was marked and
\* synced, and was uploaded again
C20_Witness ==
    /\ op = "GL_UpdateTextureResource"
    /\ Len(uploads) = 1
    /\ LET r == uploads[1].res
       IN  /\ uploads[1].via = "update"
           /\ ~Dirty(r)
           /\ \A i \in DOMAIN Cpu(r) : Cpu(r)[i] = 0
           /\ Gpu(r) = Cpu(r)


\* C21: when GL_RenderFrame executes the queued commands, the resource of
\* every command it executes is not dirty and has GPU contents equal to its
\* CPU buffer, also when the resource was painted and marked dirty after it
\* was enqueued.
C21_JustInTime ==
    [][op' = "GL_RenderFrame" =>
         \A i \in DOMAIN executed' :
             LET r == executed'[i].res
             IN  /\ ~resources'[r].m_needUpdate
                 /\ resources'[r].m_tex.pixels = resources'[r].m_data]_vars


\* C22: in every state in which each write to a resource's CPU buffer has
\* been followed by a mark-dirty of that resource, every resource that is not
\* dirty has GPU contents equal to its CPU buffer.
C22_CleanMeansSynced ==
    Marked => \A r \in Handles : ~Dirty(r) => Gpu(r) = Cpu(r)

\* a framebuffer was painted, marked and synced and is clean with its
\* painted buffer on the GPU, while another resource is dirty although its
\* GPU contents equal its CPU buffer
C22_Witness ==
    /\ Marked
    /\ \E r \in Held({"framebuffer"}) :
         /\ ~Dirty(r)
         /\ Cpu(r)[0] # 0
         /\ Gpu(r) = Cpu(r)
    /\ \E q \in Handles : Dirty(q) /\ Gpu(q) = Cpu(q)


\* the CPU side of a resource: name, buffer, dirty flag and dimensions
CpuSide(tr) ==
    [tag |-> tr.tag, m_data |-> tr.m_data, m_needUpdate |-> tr.m_needUpdate,
     m_width |-> tr.m_width, m_height |-> tr.m_height]

\* C23: the resolution change handler changes GPU-side state only: after it
\* every resource has the CPU buffer, dirty flag and dimensions it had before,
\* the names registered in the hive are the same, and both draw lists hold
\* the same commands in the same order.
C23_HandlerGpuOnly ==
    [][op' = "VALLOCATION" =>
         /\ DOMAIN resources' = DOMAIN resources
         /\ \A r \in Handles : CpuSide(resources'[r]) = CpuSide(resources[r])
         /\ TagsOf(resources', graphics') = TagsOf(resources, graphics)
         /\ drawCommands' = drawCommands
         /\ lateDrawCommands' = lateDrawCommands]_vars

\* the handler ran while a late command was queued and a resource was dirty
\* with a painted buffer
C23_Witness ==
    /\ op = "VALLOCATION"
    /\ lateDrawCommands # <<>>
    /\ \E r \in Range(graphics) : Dirty(r) /\ Cpu(r)[0] # 0

\* the buffers a resource of the size of r could hold
BuffersLike(r) == [DOMAIN Cpu(r) -> Colors]

\* C24 as claimed: the GPU-side state the handler establishes for a resource
\* is the one it would establish had the resource any other CPU buffer
\* contents, everything else being the same.
C24_Original ==
    [][op' = "VALLOCATION" =>
         \A r \in Range(graphics) : \A buf \in BuffersLike(r) :
             Regenerate([resources[r] EXCEPT !.m_data = buf]).m_tex
                = resources'[r].m_tex]_vars

\* C24 (amended): the handler reads the CPU buffers and does not change
\* them: the GPU-side state it establishes for a resource is a valid texture
\* of the resource's dimensions holding the resource's CPU buffer, whatever
\* the texture held before and whatever the dirty flag is, so that a resource
\* with any other buffer contents would get those contents on the GPU.
C24_HandlerReadsCpu ==
    [][op' = "VALLOCATION" =>
         \A r \in Range(graphics) :
           \A buf \in BuffersLike(r), dirty \in BOOLEAN,
              tex \in {rbTexture, resources[r].m_tex} :
             LET alt == Regenerate([resources[r] EXCEPT !.m_data = buf,
                                                        !.m_needUpdate = dirty,
                                                        !.m_tex = tex])
             IN  /\ alt.m_tex = [id |-> 1, width |-> resources[r].m_width,
                                 height |-> resources[r].m_height, pixels |-> buf]
                 /\ alt.m_data = buf
                 /\ buf = Cpu(r) => resources'[r].m_tex = alt.m_tex]_vars

\* the handler ran with two registered resources of different buffer
\* contents, one of them painted and never marked, and their GPU contents
\* differ as their buffers do
C24_Witness ==
    /\ op = "VALLOCATION"
    /\ \E r, q \in Range(graphics) :
         /\ ~Dirty(r) /\ Cpu(r)[0] # 0 /\ Cpu(q)[0] = 0
         /\ Gpu(r) = Cpu(r) /\ Gpu(q) = Cpu(q)

\* C25: a firing of the resolution change handler right after another
\* leaves every resource (GPU contents, dirty flag, CPU buffer), the hive, the
\* framebuffers and both draw lists as the first firing left them, and makes
\* the same uploads.
C25_HandlerIdempotent ==
    [][(op = "VALLOCATION" /\ op' = "VALLOCATION") =>
         /\ resources' = resources
         /\ graphics' = graphics
         /\ uploads' = uploads
         /\ UNCHANGED <<framebuffer160, framebuffer320, drawCommands,
                        lateDrawCommands>>]_vars

\* the handler fired twice in a row with a resource that is dirty and whose
\* painted buffer is on the GPU
C25_Witness ==
    /\ op = "VALLOCATION"
    /\ refired
    /\ \E r \in Range(graphics) : Dirty(r) /\ Cpu(r)[0] # 0 /\ Gpu(r) = Cpu(r)


\* the colour of index i: 0 for index 0, the lookup of the palette entry
\* otherwise
ColourOf(i) == IF i = 0 THEN 0 ELSE CRYToRGB[PaletteEntry(palette8, i)]

\* the source bytes the loop of the packed converter reads whose two pixels
\* are tracked
PackedBytes(w, h) == {p \in 0..((w * h) \div 2 - 1) : 2 * p + 1 < Tracked(w, h)}

\* C26: in the buffer the packed converter makes, source byte p gives pixel
\* 2p from its high nibble and pixel 2p+1 from its low nibble: the index i is
\* the nibble plus twice the palette shift, as the converter holds it in a
\* byte, and the pixel is 0 when i is 0 and CRYToRGB[palette8[i]] otherwise.
C26_PackedLayout ==
    CreatedAs("RES_8BIT_PACKED") =>
        \A p \in PackedBytes(request.width, request.height) :
            LET high == (request.data[p] \div 16) % 16
                low == request.data[p] % 16
            IN  /\ Cpu(ret)[2 * p] = ColourOf(BiasedIndex(request.palshift, high))
                /\ Cpu(ret)[2 * p + 1] = ColourOf(BiasedIndex(request.palshift, low))

\* the byte 0x10 was converted with palette shift 1 and a lookup table that
\* tells the two palette entries apart: the first pixel has the colour of
\* index 3, the second that of index 2, and they differ
C26_Witness ==
    /\ CreatedAs("RES_8BIT_PACKED")
    /\ request.width * request.height = 2
    /\ request.palshift = 1
    /\ request.data[0] = 16
    /\ palette8 = "odd"
    /\ Cpu(ret)[0] = CRYToRGB[1]
    /\ Cpu(ret)[1] = CRYToRGB[0]
    /\ Cpu(ret)[0] # Cpu(ret)[1]

\* C27: every pixel of the buffer a converter returns has been given the
\* value the conversion assigns to it, for every width and height, odd
\* products included: a pixel of an 8-bit graphic the colour of its source
\* byte, a pixel of a packed graphic the colour of its biased nibble.
C27_EveryPixelWritten ==
    /\ CreatedAs("RES_8BIT") =>
         \A q \in DOMAIN Cpu(ret) : Cpu(ret)[q] = ColourOf(request.data[q])
    /\ CreatedAs("RES_8BIT_PACKED") =>
         \A q \in DOMAIN Cpu(ret) :
             Cpu(ret)[q] =
                ColourOf(BiasedIndex(request.palshift, NibbleOf(request.data, q)))


\* a framebuffer as GL_InitFramebufferTextures leaves it: registered under
\* this name, with an all-zero CPU buffer, not dirty, the GPU holding the buffer
FreshFramebuffer(rs, hive, fb, name) ==
    /\ fb \in Range(hive)
    /\ rs[fb].tag = name
    /\ \A i \in DOMAIN rs[fb].m_data : rs[fb].m_data[i] = 0
    /\ ~rs[fb].m_needUpdate
    /\ rs[fb].m_tex.pixels = rs[fb].m_data

\* C28: when GL_InitFramebufferTextures succeeds the two framebuffers are two
\* distinct resources registered under "framebuffer" and "framebuffer320",
\* each with an all-zero CPU buffer, not dirty and with GPU contents equal to
\* the buffer; no later operation changes which resources they are or their
\* names, and GL_TextureResourceGetFramebuffer(FB_160) and (FB_320) return
\* those two handles.
C28_FramebuffersRetained ==
    [][/\ (op' = "GL_InitFramebufferTextures" /\ pc' = "running") =>
            /\ framebuffer160' # framebuffer320'
            /\ FreshFramebuffer(resources', graphics', framebuffer160', "framebuffer")
            /\ FreshFramebuffer(resources', graphics', framebuffer320', "framebuffer320")
       /\ pc = "running" =>
            /\ UNCHANGED <<framebuffer160, framebuffer320>>
            /\ resources'[framebuffer160].tag = "framebuffer"
            /\ resources'[framebuffer320].tag = "framebuffer320"
            /\ {framebuffer160, framebuffer320} \subseteq Range(graphics')
       /\ GL_TextureResourceGetFramebuffer("FB_160") => ret' = framebuffer160
       /\ GL_TextureResourceGetFramebuffer("FB_320") => ret' = framebuffer320]_vars

\* the accessor returned the second framebuffer after a graphic was
\* registered and the first framebuffer was painted and marked dirty
C28_Witness ==
    /\ op = "GL_TextureResourceGetFramebuffer"
    /\ ret # NULL
    /\ ret = framebuffer320
    /\ resources[ret].tag = "framebuffer320"
    /\ Len(graphics) = 3
    /\ Dirty(framebuffer160) /\ Cpu(framebuffer160)[0] # 0


\* C29 as claimed: after each command of a frame is executed, blending,
\* culling and alpha testing are enabled, depth testing is disabled and back
\* faces are culled.
C29_Original ==
    [][op' = "GL_RenderFrame" =>
         \A n \in 1..Len(executed') :
             LET st == StateAfter(rbState, n)
             IN  /\ st.blend /\ st.cull /\ st.alphaTest /\ ~st.depthTest
                 /\ st.cullFace = "RB_GLCULL_BACK"]_vars

\* the render states a GL context can be in
RenderStates ==
    [cull : BOOLEAN, cullFace : {"RB_GLCULL_BACK", "RB_GLCULL_FRONT"},
     depthTest : BOOLEAN, blend : BOOLEAN, alphaTest : BOOLEAN,
     blendSrc : {"RB_GLSRC_ONE", "RB_GLSRC_SRC_ALPHA"},
     blendDst : {"RB_GLDST_ZERO", "RB_GLDST_ONE_MINUS_SRC_ALPHA"}]

\* the one render state every command is executed under
DefaultStates ==
    [cull |-> TRUE, cullFace |-> "RB_GLCULL_FRONT", depthTest |-> FALSE,
     blend |-> TRUE, alphaTest |-> TRUE,
     blendSrc |-> "RB_GLSRC_SRC_ALPHA", blendDst |-> "RB_GLDST_ONE_MINUS_SRC_ALPHA"]

\* C29 (amended): every draw command is executed under the same fixed render
\* state: blending enabled with source factor source-alpha and destination
\* factor one-minus-source-alpha, culling enabled with front faces culled,
\* depth testing disabled, alpha testing enabled. This is the state after
\* each command of a frame, whatever the state was before and however many
\* commands the frame has, it is the state the frame leaves, and no other
\* operation changes the render state.
C29_RenderState ==
    [][/\ op' = "GL_RenderFrame" =>
            /\ \A n \in 1..Len(executed') : StateAfter(rbState, n) = DefaultStates
            /\ \A st \in RenderStates : GL_drawRectImmediate(st) = DefaultStates
            /\ executed' # <<>> => rbState' = DefaultStates
            /\ executed' = <<>> => rbState' = rbState
       /\ op' # "GL_RenderFrame" => rbState' = rbState]_vars

\* a frame of two commands was executed and left the default states
C29_Witness ==
    /\ op = "GL_RenderFrame"
    /\ Len(executed) = 2
    /\ rbState = DefaultStates
    /\ rbState # rbInitial


\* the larger and the smaller of two numbers
Max(a, b) == IF a > b THEN a ELSE b
AtMost(a, b) == IF a < b THEN a ELSE b

\* the settings and the cursor are within their ranges
MenuInRange ==
    /\ cursorpos \in {gamemode, level, difficulty}
    /\ currentplaymode \in 0..(NUMMODES - 1)
    /\ playermap \in 1..maxlevel
    /\ playerskill \in 0..sk_nightmare

\* a setting moved by the held buttons and stopped at its bounds: JP_RIGHT
\* adds one up to hi, then JP_LEFT takes one down to lo
Stopped(v, buttons, lo, hi) ==
    LET right == IF "JP_RIGHT" \in buttons THEN AtMost(v + 1, hi) ELSE v
    IN  IF "JP_LEFT" \in buttons THEN Max(right - 1, lo) ELSE right

\* C30: after M_Start with start settings in range, and after every M_Ticker
\* call with any buttons, the cursor is on one of the three items and
\* currentplaymode, playermap and playerskill are within 0..NUMMODES-1,
\* 1..maxlevel and 0..sk_nightmare. In a call that moves, JP_DOWN takes the
\* cursor one item down and from the last item to the first, JP_UP one item up
\* and from the first to the last (both together leave it), and the setting
\* under the cursor goes one step right or left and stops at its bounds, the
\* other two settings staying as they are.
C30_MenuInRange ==
    [][/\ mpc' # "off" => MenuInRange'
       /\ (mpc = "menu" /\ mret' = 0 /\ movecount' = 1) =>
            LET b == ticbuttons'
                down == IF "JP_DOWN" \in b THEN (cursorpos + 1) % NUMMENUITEMS
                        ELSE cursorpos
                cp == IF "JP_UP" \in b THEN (down + NUMMENUITEMS - 1) % NUMMENUITEMS
                      ELSE down
            IN  /\ cursorpos' = cp
                /\ currentplaymode' =
                     IF cp = gamemode
                     THEN Stopped(currentplaymode, b, 0, NUMMODES - 1)
                     ELSE currentplaymode
                /\ playermap' =
                     IF cp = level THEN Stopped(playermap, b, 1, maxlevel)
                     ELSE playermap
                /\ playerskill' =
                     IF cp = difficulty THEN Stopped(playerskill, b, 0, sk_nightmare)
                     ELSE playerskill]_vars

\* JP_DOWN and JP_RIGHT were pressed with the cursor on the last item and
\* the play mode at its upper bound: the cursor went round to the first item
\* and the play mode stayed at its bound
C30_Witness ==
    /\ mpc = "menu"
    /\ mret = 0
    /\ movecount = 1
    /\ ticbuttons = {"JP_DOWN", "JP_RIGHT"}
    /\ entered.cursorpos = difficulty
    /\ cursorpos = gamemode
    /\ entered.currentplaymode = NUMMODES - 1
    /\ currentplaymode = NUMMODES - 1


(* ---------------------------------------------------------------------- *)
(* C31: M_Ticker returns 1 exactly when ticon > 10 and at least one of    *)
(* JP_A, JP_B, JP_C is pressed; that call copies playermap, playerskill   *)
(* and currentplaymode into startmap, startskill and starttype and        *)
(* changes no other menu state (cursor, skull animation, movecount, the   *)
(* settings themselves); every other call returns 0 and leaves startmap,  *)
(* startskill and starttype as they were.                                 *)
(* ---------------------------------------------------------------------- *)
Exits(buttons, t) == t > 10 /\ buttons \cap ExitButtons # {}

C31_ExitCopiesSettings ==
    [][\A buttons \in Buttons, t \in Ticons :
          M_Ticker(buttons, t) =>
              /\ mret' \in {0, 1}
              /\ (mret' = 1) <=> Exits(buttons, t)
              /\ mret' = 1 =>
                    /\ startmap' = playermap
                    /\ startskill' = playerskill
                    /\ starttype' = currentplaymode
                    /\ UNCHANGED <<cursorpos, cursorframe, cursorcount,
                                   movecount, playermap, playerskill,
                                   currentplaymode>>
              /\ mret' = 0 => UNCHANGED <<startmap, startskill, starttype>>]_vars

(* An exiting call that copied settings the menu had changed (skill 2 is  *)
(* no start skill, the play mode is not the start type of the entry), in  *)
(* the middle of a skull period and of a repeat period.                   *)
C31_Witness ==
    /\ mpc = "done" /\ mret = 1
    /\ startskill = playerskill /\ playerskill = 2
    /\ startmap = playermap
    /\ starttype = currentplaymode /\ currentplaymode = dmatch
    /\ cursorcount = 2 /\ movecount = 4 /\ cursorpos = difficulty


(* ---------------------------------------------------------------------- *)
(* C32: while a direction is held on consecutive non-exiting calls of     *)
(* M_Ticker, the cursor/setting change is applied on the first such call  *)
(* and then again every 6th call, or every 3rd call while cursorpos is    *)
(* level at the start of the call; a call with no direction held resets   *)
(* movecount to 0; movecount stays within 0..6.                           *)
(* ---------------------------------------------------------------------- *)
DirectionHeld(buttons) == buttons \cap Directions # {}

\* the call ran the cursor and setting code (124-184) with these buttons
Applied(buttons) ==
    LET cp == MoveCursor(cursorpos, buttons)
    IN  /\ cursorpos' = cp
        /\ currentplaymode' = IF cp = gamemode
                              THEN StepPlayMode(currentplaymode, buttons)
                              ELSE currentplaymode
        /\ playermap' = IF cp = level
                        THEN StepPlayerMap(playermap, buttons, maxlevel)
                        ELSE playermap
        /\ playerskill' = IF cp = difficulty
                          THEN StepPlayerSkill(playerskill, buttons)
                          ELSE playerskill

\* the call left the cursor and the settings alone
Skipped == UNCHANGED <<cursorpos, currentplaymode, playermap, playerskill>>

\* start of a hold: the call before had no direction held (ticbuttons is
\* what that call read), or there was no call since M_Start
FirstHeld(buttons) == DirectionHeld(buttons) /\ ~DirectionHeld(ticbuttons)

\* a repeat is due: five calls passed since the last change, or two on
\* the level item
RepeatDue == movecount = 6 \/ (cursorpos = level /\ movecount = 3)

C32_RepeatCadence ==
    [][\A buttons \in Buttons, t \in Ticons :
          (M_Ticker(buttons, t) /\ ~Exits(buttons, t)) =>
              /\ movecount' \in 0..6
              /\ ~DirectionHeld(buttons) => movecount' = 0 /\ Skipped
              /\ FirstHeld(buttons) => movecount' = 1 /\ Applied(buttons)
              /\ (DirectionHeld(buttons) /\ ~FirstHeld(buttons)) =>
                    IF RepeatDue
                    THEN movecount' = 1 /\ Applied(buttons)
                    ELSE movecount' = movecount + 1 /\ Skipped]_vars


(* ---------------------------------------------------------------------- *)
(* C33: when every mobj vissprite in [vissprites, lastsprite_p) has       *)
(* xscale < MAXINT on entry, R_Sprites processes each of them exactly     *)
(* once, in non-decreasing order of the xscale it had on entry, sprites   *)
(* of equal xscale in array order; for a sprite with a patch it calls     *)
(* R_ClipVisSprite and then R_DrawVisSprite, and a sprite without a patch *)
(* is skipped without either call.                                        *)
(* ---------------------------------------------------------------------- *)
ValidScales == \A k \in 1..mobjCount : onEntry[k].xscale < MAXINT

\* sprite a is processed before sprite b
Before(a, b) ==
    \/ onEntry[a].xscale < onEntry[b].xscale
    \/ onEntry[a].xscale = onEntry[b].xscale /\ a < b

\* the calls R_Sprites makes for the sprites pk, one after the other
RECURSIVE CallsFor(_)
CallsFor(pk) ==
    IF pk = <<>> THEN <<>>
    ELSE (IF onEntry[Head(pk)].patch # NULL THEN ClipAndDraw(Head(pk))
          ELSE <<>>) \o CallsFor(Tail(pk))

IsMobjCall(c) == c[2] <= mobjCount
IsPspriteCall(c) == c[2] > mobjCount
MobjCalls == SelectSeq(spriteCalls, IsMobjCall)
PspriteCalls == SelectSeq(spriteCalls, IsPspriteCall)

C33_SortedOnce ==
    (spc # "entry" /\ ValidScales) =>
        /\ spc # "crashed"
        /\ Len(picked) = (IF spc = "mobj" THEN sprI ELSE mobjCount)
        /\ \A a \in DOMAIN picked : picked[a] \in 1..mobjCount
        /\ \A a, b \in DOMAIN picked : a < b => Before(picked[a], picked[b])
        /\ \A a \in DOMAIN picked :
              \A k \in (1..mobjCount) \ Range(picked) : Before(picked[a], k)
        /\ spc \in {"psprites", "returned"} => Range(picked) = 1..mobjCount
        /\ MobjCalls = CallsFor(picked)

(* Two mobj sprites out of order, the farther one without a patch.        *)
C33_Witness ==
    /\ spc = "returned" /\ mobjCount = 2 /\ ValidScales
    /\ onEntry[1].xscale = 2 /\ onEntry[2].xscale = 1
    /\ onEntry[2].patch = NULL
    /\ picked = <<2, 1>>
    /\ MobjCalls = ClipAndDraw(1)

(* ---------------------------------------------------------------------- *)
(* C34: for any xscale values (MAXINT included) and any count >= 1, every *)
(* iteration of the mobj loop selects a sprite no earlier iteration       *)
(* selected: best is never NULL when it is dereferenced and no sprite is  *)
(* clipped or drawn twice.                                                *)
(* ---------------------------------------------------------------------- *)
C34_FreshSelection ==
    /\ spc # "crashed"
    /\ NULL \notin Range(picked)
    /\ \A a, b \in DOMAIN picked : a < b => picked[a] # picked[b]
    /\ \A a, b \in DOMAIN MobjCalls : a < b => MobjCalls[a] # MobjCalls[b]

(* ---------------------------------------------------------------------- *)
(* C35: R_Sprites draws every psprite in [lastsprite_p, vissprite_p)      *)
(* exactly once, in array order, only after all mobj sprites have been    *)
(* processed and without calling R_ClipVisSprite for it; before drawing a *)
(* psprite it sets spropening[x] = SCREENHEIGHT for every x in x1..x2;    *)
(* R_Sprites terminates, and on return lastsprite_p equals vissprite_p.   *)
(* Amended: the call returns provided its mobj loop does not read through *)
(* a null best, that is, there is no mobj sprite or at least one has      *)
(* xscale < MAXINT on entry.                                              *)
(* ---------------------------------------------------------------------- *)
\* the psprites drawn so far are the first ones of the array, each drawn
\* once, in array order, after the mobj loop and its calls, unclipped, with
\* their columns opened
PspritesInOrder ==
    spc # "entry" =>
        /\ PspriteCalls = [k \in 1..(lastsprite_p - 1 - mobjCount) |->
                              <<"R_DrawVisSprite", mobjCount + k>>]
        /\ spriteCalls = MobjCalls \o PspriteCalls
        /\ PspriteCalls # <<>> =>
              spc \in {"psprites", "returned"} /\ Len(picked) = mobjCount
        /\ \A k \in (mobjCount + 1)..(lastsprite_p - 1) :
              \A x \in vissprites[k].x1..vissprites[k].x2 :
                  spropening[x] = SCREENHEIGHT
        /\ spc = "returned" => lastsprite_p = vissprite_p

\* the scan of the first iteration finds a sprite, or there is none to find
FindsBest ==
    spc = "entry" /\ (lastsprite_p = 1 \/
                      \E k \in 1..(lastsprite_p - 1) : vissprites[k].xscale < MAXINT)

Bit(b, k) == (b \div (2 ^ k)) % 2

C36_TokenStream ==
    [][tokens' = tokens + 1 =>
         LET newId == tokens % 8 = 0
             at == IF newId THEN input + 1 ELSE input
             id == IF newId THEN lump'[input + 1] ELSE idRead
             bit == Bit(id, tokens % 8)
         IN  /\ dpc = "running"
             /\ idRead' = id
             /\ SubSeq(lump', 1, Len(lump)) = lump
             /\ bit = 0 =>
                   /\ input' = at + 1
                   /\ output' = Append(output, vgatojag(lump'[at + 1]))
                   /\ dpc' = "running"
             /\ bit = 1 =>
                   LET b1 == lump'[at + 1]
                       b2 == lump'[at + 2]
                       pos == (16 * b1) + (b2 \div 16)
                       n == (b2 % 16) + 1
                   IN  /\ input' = at + 2
                       /\ b2 % 16 = 0 => dpc' = "done" /\ output' = output
                       /\ b2 % 16 # 0 =>
                             /\ dpc' # "done"
                             /\ dpc' = "running" =>
                                   /\ Len(output') = Len(output) + n
                                   /\ SubSeq(output', 1, Len(output)) = output
                                   /\ \A k \in 1..n :
                                         Len(output) + k - (pos + 1) >= 1 =>
                                            output'[Len(output) + k] =
                                            output'[Len(output) + k - (pos + 1)]]_vars

(* The data that starts with id byte 16 decoded to its end: the fifth     *)
(* token copied two pixels from two back, the ninth token, under a new id *)
(* byte, was the terminator.                                              *)
C36_Witness ==
    /\ dpc = "done" /\ tokens = 9
    /\ lumpStart = <<16, 1, 2, 16, 18, 0, 17, 2, 1, 18>>
    /\ Len(lump) = 13 /\ input = 13
    /\ output = <<51487, 55319, 38655, 42995, 38655, 42995, 55319, 51487, 42995>>


(* ---------------------------------------------------------------------- *)
(* C37: in GL_8bppPackedTo32bpp, for every source byte and every          *)
(* palshift >= 0, the biased index palshift * 2 + nibble is reduced       *)
(* modulo 256 before it is used: every index palette8 is read at lies in  *)
(* 0..255, and a biased index of exactly 256 is treated as index 0        *)
(* (transparent).                                                         *)
(* ---------------------------------------------------------------------- *)
\* the sum the converter computes before it stores it in a byte
BiasedSum(palshift, nib) == (palshift * 2) + nib

C37_IndexInByte ==
    CreatedAs("RES_8BIT_PACKED") =>
        \A q \in PackedWritten(request.width, request.height) :
            LET sum == BiasedSum(request.palshift, NibbleOf(request.data, q))
            IN  /\ \E idx \in 0..255 :
                      /\ (sum - idx) % 256 = 0
                      /\ Cpu(ret)[q] = IF idx = 0 THEN 0
                                       ELSE CRYToRGB[PaletteEntry(palette8, idx)]
                /\ sum = 256 => Cpu(ret)[q] = 0

(* Source byte 0x21 converted with palette shift 127: the sums are 256    *)
(* and 255, the first pixel is transparent although the palette and the   *)
(* lookup table give entry 256 - 256 = 0 a colour, the second is the      *)
(* colour of entry 255.                                                   *)
C37_Witness ==
    /\ CreatedAs("RES_8BIT_PACKED")
    /\ request.width * request.height = 2
    /\ request.palshift = 127
    /\ request.data[0] = 33
    /\ CRYToRGB[PaletteEntry(palette8, 0)] # 0
    /\ Cpu(ret)[0] = 0
    /\ Cpu(ret)[1] = CRYToRGB[PaletteEntry(palette8, 255)]
    /\ Cpu(ret)[1] # 0

====
